---- MODULE Spec2Model ----
(***************************************************************************)
(* Model of kalshi-mcp-server: the stdio JSON-RPC engine (StdioMCPServer), *)
(* the tool registry, the resource registry and the tool handlers they     *)
(* reach (specification Spec), and the HTTP transport and request signing *)
(* of KalshiClient (specification ClientSpec), and the paging tools        *)
(* (specification PageSpec; PageFairSpec when every fetch returns).        *)
(*                                                                         *)
(* Encoding of Python / JSON values.  A dict is a function from its keys   *)
(* (strings) to values, so `k in d` is k \in DOMAIN d.  Every other value  *)
(* is a record carrying the reserved key "json": None, a string, a number, *)
(* a bool or a list.  isinstance(v, dict) is therefore "json" \notin       *)
(* DOMAIN v.                                                               *)
(***************************************************************************)
EXTENDS Integers, Sequences, FiniteSets, TLC

VARIABLES
    initialized,   \* StdioMCPServer._initialized
    resources,     \* StdioMCPServer._resources is not None (fixed at construction)
    pc,            \* position of run(): "read", "handle", "next", "exit"
    line,          \* the raw line of the current iteration of run()
    stdout,        \* the payloads _write() wrote during the current iteration
    calls,         \* the collaborator invocations made during the current iteration
    upstream,      \* how the Kalshi API behaved during the current iteration
    handshake,     \* history: what the client has achieved so far ("none",
                   \* "initialize_answered", "notified")
    settings,      \* KalshiClient: _base_url, _api_key_id, _api_key_path
    key_file,      \* what is on disk at _api_key_path
    cached_private_key,  \* KalshiClient._cached_private_key
    cpc,           \* position of the HTTP call: "idle", "attempt", "done"
    req,           \* the urllib Request of the current call (method, url, headers)
    attempts,      \* the local `attempts` of _get_json / _post_json
    urlopens,      \* history: the urlopen calls of the current call
    sleeps,        \* history: the time.sleep calls of the current call
    failed,        \* history: the kinds of failure the current call has met
    last_try,      \* history: what the latest urlopen got and the wait that followed
    outcome,       \* how the current call ended: nothing yet, a return or a raise
    key_reads,     \* history: how often the key file was read since construction
    ncalls,        \* history: the HTTP calls started since construction
    signings,      \* history: the calls of _require_auth_headers of the current call
    sent,          \* history: the headers of the request of each urlopen of the current call
    ppc,           \* position of a paging handler: "idle", "loop", "done"
    run,           \* the paging tool called, its arguments as given and as parsed
    locals,        \* the locals of the paginator: accumulator, cursor, seen_cursors, pages
    fetches,       \* history: the fetches of the current run, cursor sent and page got
    page_outcome   \* how the paging handler ended: nothing yet, a return or a raise

server_vars == <<initialized, resources, pc, line, stdout, calls, upstream, handshake>>

client_vars ==
    <<settings, key_file, cached_private_key, cpc, req, attempts, urlopens, sleeps,
      failed, last_try, outcome, key_reads, ncalls, signings, sent>>

page_vars == <<ppc, run, locals, fetches, page_outcome>>

vars == <<server_vars, client_vars, page_vars>>

----------------------------------------------------------------------------
(* Values *)

None == [json |-> "null"]
Str(s) == [json |-> "string", s |-> s]
Num(n) == [json |-> "number", n |-> n]
Bool(b) == [json |-> "bool", b |-> b]
List(items) == [json |-> "array", items |-> items]
EmptyDict == [k \in {} |-> None]

IsDict(v) == "json" \notin DOMAIN v
IsList(v) == ~IsDict(v) /\ v.json = "array"
IsStr(v) == ~IsDict(v) /\ v.json = "string"

\* dict.get(key): the value, or None when the key is absent
Get(d, key) == IF key \in DOMAIN d THEN d[key] ELSE None

\* Python truthiness of an optional dict (`if arguments:`)
Truthy(v) == v # None /\ v # EmptyDict

\* str.strip() on the strings of the model
Strip(s) ==
    CASE s = " Politics " -> "Politics"
      [] s = " KXFED " -> "KXFED"
      [] s = " 2 " -> "2"
      [] s = "  " -> ""
      [] s = " " -> ""
      [] OTHER -> s

\* json.dumps(value): the JSON text of value
Dumps(value) == [json |-> "string", text_of |-> value]
\* json.dumps(value, indent=2, sort_keys=True)
DumpsPretty(value) == [json |-> "string", text_of |-> value, indent |-> 2, sort_keys |-> TRUE]

\* Outcome of a Python call: a returned value or a raised exception (its class
\* and str()), together with the collaborator invocations the call made
Return(value) == [return |-> value, calls |-> <<>>]
Raise(exc, text) == [raise |-> exc, text |-> text, calls |-> <<>>]
Raised(o) == "raise" \in DOMAIN o
\* a call that has neither returned nor raised yet
Pending == [pending |-> TRUE]
\* the same outcome, with invocation log `log` in front of its own
After(log, o) == [calls |-> log \o o.calls] @@ o
\* an invocation log, each entry stamped with the session flag at the call
Stamp(log, init) == [i \in 1..Len(log) |-> log[i] @@ [initialized |-> init]]

----------------------------------------------------------------------------
(* Constants of the program *)

JSONRPC_VERSION == Str("2.0")
DEFAULT_PROTOCOL_VERSION == Str("2025-06-18")
NOT_INITIALIZED_TEXT ==
    "Server is not initialized. Send initialize and notifications/initialized first."

----------------------------------------------------------------------------
(* Bounds and input domains *)

MaxBatch == 2

Upstream == {"ok", "http_error", "schema_error"}

Methods ==
    {"initialize", "ping", "tools/list", "tools/call", "resources/list",
     "resources/read", "resources/templates/list", "notifications/initialized",
     "notifications/cancelled", "no/such/method"}

IdValues == {None, Num(0), Str("a")}

NameValues ==
    {Num(7), Str(""), Str("get_categories"), Str("get_tags_for_series_category"),
     Str("no_such_tool")}

ArgumentValues ==
    {None, List(<<>>), EmptyDict}
    \cup {[category |-> c] : c \in {Str("Politics"), Str(" Politics "), Str("Sports"), Num(7)}}

UriValues ==
    {Num(7), Str(""), Str("kalshi:///categories"), Str("kalshi:///portfolio/balance"),
     Str("kalshi:///category/Politics/tags"), Str("kalshi:///category/Sports/tags"),
     Str("kalshi:///category/Pol%69tics/tags"),
     Str("kalshi:///category/a/b/tags"), Str("kalshi:///nowhere"),
     Str("https://example.com/categories"), Str("kalshi://categories"),
     Str("kalshi:///portfolio/subaccount_balances"), Str("kalshi:///tags_by_categories"),
     Str("kalshi:///category/Politics/series_tickers?tags=Fed&limit=50&max_pages=2"),
     Str("kalshi:///category/Politics/series_tickers?limit=abc"),
     Str("kalshi:///category/series_tickers"),
     Str("kalshi:///series?category=Politics&limit= 2 &include_volume=yes"),
     Str("kalshi:///series?include_volume=maybe"),
     Str("kalshi:///portfolio/orders?status=resting&limit=50"),
     Str("kalshi:///series/KXFED/open_markets?max_pages=1&limit="),
     Str("kalshi:///series/KXFED/open_market_titles"),
     Str("kalshi:///series/a/b/open_markets")}

VersionValues == {Num(7), Str(""), Str("2024-11-05")}

\* dicts with exactly the key k / with the key k or without it
Key(k, S) == {k :> v : v \in S}
Opt(k, S) == {EmptyDict} \cup Key(k, S)
Cross(A, B) == {a @@ b : a \in A, b \in B}

ParamsValues ==
    {None, List(<<>>)}
    \cup Cross(Opt("name", NameValues), Opt("arguments", ArgumentValues))
    \cup Key("uri", UriValues)
    \cup Key("protocolVersion", VersionValues)

\* jsonrpc "2.0" objects with a string method: requests and notifications
CallMessages ==
    Cross(Cross(Cross(Key("jsonrpc", {JSONRPC_VERSION}),
                      Key("method", {Str(m) : m \in Methods})),
                Opt("id", IdValues)),
          Opt("params", ParamsValues))

\* objects without a string method, or with a wrong or missing jsonrpc
OtherMessages ==
    Cross(Cross(Cross(Opt("jsonrpc", {JSONRPC_VERSION, Str("1.0")}),
                      Opt("method", {Num(7), Str("ping"), Str("notifications/initialized"),
                                     Str("resources/read")})),
                Opt("id", IdValues)),
          {EmptyDict, [result |-> EmptyDict], [error |-> EmptyDict]})

Messages == CallMessages \cup OtherMessages \cup {Num(7), None}

Request(id, method) == [jsonrpc |-> JSONRPC_VERSION, id |-> id, method |-> Str(method)]
Notification(method) == [jsonrpc |-> JSONRPC_VERSION, method |-> Str(method)]

\* the elements batches are built from
BatchItems ==
    {Notification("notifications/initialized"),
     Notification("notifications/cancelled"),
     Request(Num(0), "ping"),
     Request(Str("a"), "resources/list"),
     Request(Str("a"), "resources/read") @@ [params |-> [uri |-> Str("kalshi:///categories")]],
     Request(Num(0), "resources/read") @@ [params |-> [uri |-> Str("kalshi:///nowhere")]],
     Request(Num(0), "tools/call") @@ [params |-> [name |-> Str("get_categories")]],
     Request(Str("a"), "tools/call")
         @@ [params |-> [name |-> Str("get_tags_for_series_category"),
                         arguments |-> [category |-> Str("Sports")]]],
     Request(Num(0), "initialize") @@ [params |-> EmptyDict],
     Request(Str("a"), "notifications/initialized"),
     Request(None, "ping"),
     Request(Num(0), "no/such/method"),
     [jsonrpc |-> Str("1.0"), method |-> Str("notifications/initialized")],
     [jsonrpc |-> JSONRPC_VERSION, id |-> Num(0), result |-> EmptyDict],
     [jsonrpc |-> JSONRPC_VERSION],
     Num(7)}

RECURSIVE SeqsUpTo(_, _)
SeqsUpTo(S, n) ==
    IF n = 0 THEN {<<>>}
    ELSE LET shorter == SeqsUpTo(S, n - 1)
         IN  shorter \cup {Append(q, x) : q \in {p \in shorter : Len(p) = n - 1}, x \in S}

Batches == {List(items) : items \in SeqsUpTo(BatchItems, MaxBatch)}

\* the raw lines the client may send
Lines ==
    {[raw |-> "blank"], [raw |-> "garbage"]}
    \cup {[raw |-> "json", value |-> v] : v \in Messages \cup Batches}

----------------------------------------------------------------------------
(* kalshi_client.py, services.py: what the tools of this model fetch.  The  *)
(* HTTP call itself is summarised by `u`: it succeeds with a well-shaped    *)
(* payload, fails (KalshiClientError from _get_json), or succeeds with a    *)
(* payload of the wrong shape (KalshiClientError from the field checks).    *)

BASE_URL == "https://api.elections.kalshi.com/trade-api/v2"

KalshiClient_get_tags_for_series_categories(u) ==
    CASE u = "http_error" ->
            Raise("KalshiClientError",
                  "Kalshi API HTTP 503 for " \o BASE_URL \o "/search/tags_by_categories")
      [] u = "schema_error" ->
            Raise("KalshiClientError",
                  "Unexpected response shape from Kalshi API: missing 'tags_by_categories' object.")
      [] OTHER -> Return([Politics |-> List(<<Str("Trump"), Str("Biden")>>)])

KalshiClient_get_balance(u) ==
    CASE u = "http_error" ->
            Raise("KalshiClientError",
                  "Kalshi API HTTP 503 for " \o BASE_URL \o "/portfolio/balance")
      [] u = "schema_error" ->
            Raise("KalshiClientError",
                  "Unexpected response shape from Kalshi API: missing integer 'balance'.")
      [] OTHER -> Return([balance |-> Num(1000), portfolio_value |-> Num(2500),
                          updated_ts |-> Num(1735000000)])

\* sorted(d.keys()) for the dicts of the model, which have one key
SortedKeys(d) == List(<<Str(CHOOSE k \in DOMAIN d : TRUE)>>)

MetadataService_get_categories(u) ==
    LET then(o) == IF Raised(o) THEN o ELSE Return(SortedKeys(o.return))
    IN  then(KalshiClient_get_tags_for_series_categories(u))

MetadataService_get_tags_for_series_category(category, u) ==
    LET then(normalized_category, o) ==
            IF normalized_category = "" THEN
                Raise("ValueError", "category must be a non-empty string.")
            ELSE IF Raised(o) THEN o
            ELSE IF normalized_category \notin DOMAIN o.return THEN
                Raise("ValueError", "Unknown category: " \o normalized_category)
            ELSE Return(o.return[normalized_category])
    IN  then(Strip(category), KalshiClient_get_tags_for_series_categories(u))

----------------------------------------------------------------------------
(* mcp/handlers.py *)

handle_get_tags_for_series_categories(arguments, u) ==
    IF Truthy(arguments) THEN
        Raise("ValueError", "get_tags_for_series_categories does not accept arguments.")
    ELSE LET then(o) == IF Raised(o) THEN o ELSE Return([tags_by_categories |-> o.return])
         IN  then(KalshiClient_get_tags_for_series_categories(u))

handle_get_balance(arguments, u) ==
    IF Truthy(arguments) THEN
        Raise("ValueError", "get_balance does not accept arguments.")
    ELSE KalshiClient_get_balance(u)

handle_get_categories(arguments, u) ==
    IF Truthy(arguments) THEN
        Raise("ValueError", "get_categories does not accept arguments.")
    ELSE LET then(o) == IF Raised(o) THEN o ELSE Return([categories |-> o.return])
         IN  then(MetadataService_get_categories(u))

handle_get_tags_for_series_category(arguments, u) ==
    IF arguments = None THEN
        Raise("ValueError", "Missing arguments for get_tags_for_series_category.")
    ELSE IF ~IsStr(Get(arguments, "category")) THEN
        Raise("ValueError", "category must be a string.")
    ELSE IF Strip(arguments.category.s) = "" THEN
        Raise("ValueError", "category must be a non-empty string.")
    ELSE LET then(category, o) ==
                 IF Raised(o) THEN o
                 ELSE Return([category |-> Str(category), tags |-> o.return])
         IN  then(Strip(arguments.category.s),
                  MetadataService_get_tags_for_series_category(Strip(arguments.category.s), u))

----------------------------------------------------------------------------
(* kalshi_client.py, services.py: the list endpoints the paginators fetch   *)
(* from.  A page is what _get_json gave for one fetch: a KalshiClientError, *)
(* or a payload, of which `items` is payload.get("markets") or              *)
(* payload.get("series") and `cursor` is payload.get("cursor").  An item is *)
(* given by its ticker; Num(0) is an item _parse_market / _parse_series     *)
(* skips.                                                                   *)

\* the items _parse_market / _parse_series keep
parse_items(items) == SelectSeq(items, LAMBDA raw : IsStr(raw))

\* a client that hands the cursor of the payload on as it came
M_cursor_of_as_sent(cursor) == cursor

\* the cursor of a list payload: a value that is not a string, and the empty
\* string, are taken as None
cursor_of(cursor) ==
    IF cursor # None /\ ~IsStr(cursor) THEN None
    ELSE IF cursor = Str("") THEN None
    ELSE cursor

KalshiClient_get_markets(page) ==
    IF page.kind = "error" THEN
        Raise("KalshiClientError", "Kalshi API HTTP 503 for " \o BASE_URL \o "/markets")
    ELSE IF ~IsList(page.items) THEN
        Raise("KalshiClientError",
              "Unexpected response shape from Kalshi API: missing 'markets' array.")
    ELSE Return([markets |-> parse_items(page.items.items), cursor |-> cursor_of(page.cursor)])

KalshiClient_get_series_list(page) ==
    IF page.kind = "error" THEN
        Raise("KalshiClientError", "Kalshi API HTTP 503 for " \o BASE_URL \o "/series")
    ELSE IF ~IsList(page.items) THEN
        Raise("KalshiClientError",
              "Unexpected response shape from Kalshi API: missing 'series' array.")
    ELSE Return([series |-> parse_items(page.items.items), cursor |-> cursor_of(page.cursor)])

MetadataService_get_markets(page) == KalshiClient_get_markets(page)
MetadataService_get_series_list(page) == KalshiClient_get_series_list(page)

----------------------------------------------------------------------------
(* mcp/handlers.py: the paging tools *)

_require_arguments(arguments, tool_name) ==
    IF arguments = None THEN Raise("ValueError", "Missing arguments for " \o tool_name \o ".")
    ELSE Return(arguments)

_parse_required_str(arguments, key, type_error, empty_error) ==
    IF ~IsStr(Get(arguments, key)) THEN Raise("ValueError", type_error)
    ELSE IF Strip(arguments[key].s) = "" THEN Raise("ValueError", empty_error)
    ELSE Return(Str(Strip(arguments[key].s)))

_parse_optional_str(arguments, key, type_error, empty_error) ==
    IF Get(arguments, key) = None THEN Return(None)
    ELSE _parse_required_str(arguments, key, type_error, empty_error)

\* isinstance(value, int) and not isinstance(value, bool)
IsInt(v) == ~IsDict(v) /\ v.json = "number"

\* mutant: the value is not held against min_value and max_value
M_parse_optional_int_unranged(arguments, key, type_error, range_error, min_value, max_value) ==
    IF Get(arguments, key) = None THEN Return(None)
    ELSE IF ~IsInt(arguments[key]) THEN Raise("ValueError", type_error)
    ELSE Return(arguments[key])

_parse_optional_int(arguments, key, type_error, range_error, min_value, max_value) ==
    IF Get(arguments, key) = None THEN Return(None)
    ELSE IF ~IsInt(arguments[key]) THEN Raise("ValueError", type_error)
    ELSE IF arguments[key].n < min_value \/ arguments[key].n > max_value THEN
        Raise("ValueError", range_error)
    ELSE Return(arguments[key])

\* `_parse_optional_int(...) or 1000`: None and 0 are falsy
OrDefault(o) ==
    IF Raised(o) THEN o
    ELSE IF o.return = None \/ o.return.n = 0 THEN Return(1000)
    ELSE Return(o.return.n)

parse_limit(args) ==
    OrDefault(_parse_optional_int(args, "limit", "limit must be an integer.",
                                  "limit must be between 1 and 1000.", 1, 1000))

parse_max_pages(args) ==
    OrDefault(_parse_optional_int(args, "max_pages", "max_pages must be an integer.",
                                  "max_pages must be between 1 and 10000.", 1, 10000))

\* the first of the outcomes that raised, or the record of what they returned
Parsed(fields) ==
    LET keys == <<"subject", "tags", "limit", "max_pages">>
        raising == {i \in 1..Len(keys) : Raised(fields[keys[i]])}
    IN  IF raising # {} THEN fields[keys[CHOOSE i \in raising : \A j \in raising : i <= j]]
        ELSE Return([k \in DOMAIN fields |-> fields[k].return])

\* handle_get_open_markets_for_series and handle_get_open_market_titles_for_series
\* up to the call of the paginator
open_markets_arguments(arguments, tool_name) ==
    IF arguments = None THEN _require_arguments(arguments, tool_name)
    ELSE Parsed([subject |-> _parse_required_str(arguments, "series_ticker",
                                                 "series_ticker must be a string.",
                                                 "series_ticker must be a non-empty string."),
                 tags |-> Return(None),
                 limit |-> parse_limit(arguments),
                 max_pages |-> parse_max_pages(arguments)])

\* handle_get_series_tickers_for_category up to the call of the paginator
series_tickers_arguments(arguments, tool_name) ==
    IF arguments = None THEN _require_arguments(arguments, tool_name)
    ELSE Parsed([subject |-> _parse_required_str(arguments, "category",
                                                 "category must be a string.",
                                                 "category must be a non-empty string."),
                 tags |-> _parse_optional_str(arguments, "tags", "tags must be a string.",
                                              "tags must be a non-empty string."),
                 limit |-> parse_limit(arguments),
                 max_pages |-> parse_max_pages(arguments)])

PagingTools ==
    {"get_open_markets_for_series", "get_open_market_titles_for_series",
     "get_series_tickers_for_category"}

paging_arguments(tool_name, arguments) ==
    IF tool_name = "get_series_tickers_for_category"
    THEN series_tickers_arguments(arguments, tool_name)
    ELSE open_markets_arguments(arguments, tool_name)

\* the locals of a paginator when it enters its loop
StartLocals ==
    [items |-> <<>>, seen_tickers |-> {}, cursor |-> None, seen_cursors |-> {}, pages |-> 0]

\* one turn of the loop: whether it fetched, how the loop goes on, the locals
\* after it and what the paginator returned or raised
Turn(next, fetched, l, o) == [next |-> next, fetched |-> fetched, locals |-> l, outcome |-> o]

\* a cap that is checked against the pages already fetched, one too late
M_cap_reached_after(pages, max_pages) == pages > max_pages

\* a loop without a cap
M_cap_reached_never(pages, max_pages) == FALSE

\* `if pages >= max_pages` at the head of the loop
cap_reached(pages, max_pages) == pages >= max_pages

\* a loop that never finds a cursor repeated
M_cursor_repeated_never(next_cursor, seen_cursors) == FALSE

\* `if next_cursor in seen_cursors`
cursor_repeated(next_cursor, seen_cursors) == next_cursor \in seen_cursors

\* an accumulator that keeps the last page only
M_extend_replaces(markets, items) == items

\* markets.extend(markets_list.markets)
extend(markets, items) == markets \o items

\* tickers appended without a look at seen_tickers
M_append_unseen_all(l, series) == [l EXCEPT !.items = @ \o series]

\* `for series in series_list.series: if series.ticker not in seen_tickers: ...`
RECURSIVE append_unseen(_, _)
append_unseen(l, series) ==
    IF series = <<>> THEN l
    ELSE append_unseen(IF Head(series) \in l.seen_tickers THEN l
                       ELSE [l EXCEPT !.seen_tickers = @ \cup {Head(series)},
                                      !.items = Append(@, Head(series))],
                       Tail(series))

\* the loop from `pages += 1` on, the same in both paginators
after_page(l, next_cursor, endpoint) ==
    IF next_cursor = None THEN
        Turn("return", TRUE, [l EXCEPT !.pages = @ + 1], Return(<<l.items, l.pages + 1>>))
    ELSE IF cursor_repeated(next_cursor, l.seen_cursors) THEN
        Turn("raise", TRUE, [l EXCEPT !.pages = @ + 1],
             Raise("ValueError", "Kalshi " \o endpoint \o " cursor repeated; aborting pagination."))
    ELSE Turn("continue", TRUE,
              [l EXCEPT !.pages = @ + 1, !.seen_cursors = @ \cup {next_cursor},
                        !.cursor = next_cursor],
              Pending)

\* one iteration of the loop of _page_open_markets_for_series
_page_open_markets_for_series(l, max_pages, page) ==
    IF cap_reached(l.pages, max_pages) THEN
        Turn("raise", FALSE, l,
             Raise("ValueError",
                   "Exceeded max_pages while paging /markets; reduce scope or increase max_pages."))
    ELSE LET then(o) ==
                 IF Raised(o) THEN Turn("raise", TRUE, l, o)
                 ELSE after_page([l EXCEPT !.items = extend(@, o.return.markets)],
                                 o.return.cursor, "/markets")
         IN  then(MetadataService_get_markets(page))

\* one iteration of the loop of _page_series_tickers_for_category
_page_series_tickers_for_category(l, max_pages, page) ==
    IF cap_reached(l.pages, max_pages) THEN
        Turn("raise", FALSE, l,
             Raise("ValueError",
                   "Exceeded max_pages while paging /series; "
                   \o "reduce scope with tags or increase max_pages."))
    ELSE LET then(o) ==
                 IF Raised(o) THEN Turn("raise", TRUE, l, o)
                 ELSE after_page(append_unseen(l, o.return.series), o.return.cursor, "/series")
         IN  then(MetadataService_get_series_list(page))

\* a market as the tools return it: of its fields the model has the ticker
_serialize_market(m) == [ticker |-> m]

\* handle_get_series_tickers_for_category: the payload it returns
series_tickers_payload(args, tickers, pages) ==
    [category |-> args.subject, tickers |-> List(tickers), count |-> Num(Len(tickers)),
     pages |-> Num(pages)]
    @@ (IF args.tags # None THEN [tags |-> args.tags] ELSE EmptyDict)

\* handle_get_open_markets_for_series, handle_get_open_market_titles_for_series:
\* the payload they return
open_markets_payload(args, markets, pages) ==
    [series_ticker |-> args.subject, status |-> Str("open"),
     markets |-> List([i \in 1..Len(markets) |-> _serialize_market(markets[i])]),
     count |-> Num(Len(markets)), pages |-> Num(pages)]

\* the handler of a paging tool from the call of its paginator on: one
\* iteration of the loop and, when the loop ends, the handler's return
paging_turn(tool_name, args, l, page) ==
    LET then(t) ==
            IF t.next # "return" THEN t
            ELSE [t EXCEPT !.outcome =
                      Return(IF tool_name = "get_series_tickers_for_category"
                             THEN series_tickers_payload(args, t.outcome.return[1],
                                                         t.outcome.return[2])
                             ELSE open_markets_payload(args, t.outcome.return[1],
                                                       t.outcome.return[2]))]
    IN  then(IF tool_name = "get_series_tickers_for_category"
             THEN _page_series_tickers_for_category(l, args.max_pages, page)
             ELSE _page_open_markets_for_series(l, args.max_pages, page))

----------------------------------------------------------------------------
(* mcp/handlers.py: the other tools the resources route to *)

KalshiClient_get_subaccount_balances(u) ==
    CASE u = "http_error" ->
            Raise("KalshiClientError",
                  "Kalshi API HTTP 503 for " \o BASE_URL \o "/portfolio/subaccounts/balances")
      [] u = "schema_error" ->
            Raise("KalshiClientError",
                  "Unexpected response shape from Kalshi API: "
                  \o "missing 'subaccount_balances' array.")
      [] OTHER -> Return(<<[subaccount_number |-> Num(0), balance |-> Num(1000),
                            updated_ts |-> Num(1735000000)]>>)

handle_get_subaccount_balances(arguments, u) ==
    IF Truthy(arguments) THEN
        Raise("ValueError", "get_subaccount_balances does not accept arguments.")
    ELSE LET then(o) == IF Raised(o) THEN o ELSE Return([subaccount_balances |-> List(o.return)])
         IN  then(KalshiClient_get_subaccount_balances(u))

\* the pages the list endpoints give while the upstream behaves as u
UpstreamPages(u) ==
    CASE u = "http_error" -> <<[kind |-> "error"]>>
      [] u = "schema_error" -> <<[kind |-> "ok", items |-> None, cursor |-> None]>>
      [] OTHER -> <<[kind |-> "ok", items |-> List(<<Str("X")>>), cursor |-> Str("a")],
                    [kind |-> "ok", items |-> List(<<Str("Y"), Str("X")>>), cursor |-> Str("")]>>

\* the loop of a paginator run to its end over the pages the upstream gives
RECURSIVE paging_loop(_, _, _, _)
paging_loop(tool_name, args, l, pages) ==
    LET then(t) ==
            IF t.next = "continue" THEN paging_loop(tool_name, args, t.locals, Tail(pages))
            ELSE t.outcome
    IN  then(paging_turn(tool_name, args, l, Head(pages)))

\* handle_get_open_markets_for_series, handle_get_open_market_titles_for_series
\* and handle_get_series_tickers_for_category as a whole
handle_paging(tool_name, arguments, u) ==
    LET then(parsed) ==
            IF Raised(parsed) THEN parsed
            ELSE paging_loop(tool_name, parsed.return, StartLocals, UpstreamPages(u))
    IN  then(paging_arguments(tool_name, arguments))

IsBool(v) == ~IsDict(v) /\ v.json = "bool"

\* handlers._parse_bool: arguments.get(key, default) must be a bool
_parse_bool(arguments, key, default, type_error) ==
    IF key \notin DOMAIN arguments THEN Return(Bool(default))
    ELSE IF ~IsBool(arguments[key]) THEN Raise("ValueError", type_error)
    ELSE Return(arguments[key])

\* the first of the outcomes that raised, Pending when none did
FirstRaise(outcomes) ==
    LET raising == {i \in 1..Len(outcomes) : Raised(outcomes[i])}
    IN  IF raising = {} THEN Pending
        ELSE outcomes[CHOOSE i \in raising : \A j \in raising : i <= j]

_serialize_series(series) == [ticker |-> series]

\* _serialize_series_list
_serialize_series_list(series_list) ==
    [series |-> List([i \in 1..Len(series_list.series) |->
                         _serialize_series(series_list.series[i])])]
    @@ (IF series_list.cursor # None THEN [cursor |-> series_list.cursor] ELSE EmptyDict)

handle_get_series_list(arguments, u) ==
    LET invalid ==
            IF arguments = None THEN Pending
            ELSE FirstRaise(<<
                _parse_optional_str(arguments, "category", "category must be a string.",
                                    "category must be a non-empty string."),
                _parse_optional_str(arguments, "tags", "tags must be a string.",
                                    "tags must be a non-empty string."),
                _parse_optional_str(arguments, "cursor", "cursor must be a string.",
                                    "cursor must be a non-empty string."),
                _parse_optional_int(arguments, "limit", "limit must be an integer.",
                                    "limit must be between 1 and 1000.", 1, 1000),
                _parse_bool(arguments, "include_product_metadata", FALSE,
                            "include_product_metadata must be a boolean."),
                _parse_bool(arguments, "include_volume", FALSE,
                            "include_volume must be a boolean.")>>)
        then(o) == IF Raised(o) THEN o ELSE Return(_serialize_series_list(o.return))
    IN  IF invalid # Pending THEN invalid
        ELSE then(MetadataService_get_series_list(UpstreamPages(u)[1]))

\* the status of handle_get_orders: one of the three the API knows
orders_status(arguments) ==
    LET then(status) ==
            IF Raised(status) \/ status.return = None THEN status
            ELSE IF status.return.s \notin {"resting", "canceled", "executed"} THEN
                Raise("ValueError", "status must be one of resting, canceled, executed.")
            ELSE status
    IN  then(_parse_optional_str(arguments, "status", "status must be a string.",
                                 "status must be a non-empty string."))

\* handle_get_orders: the arguments are parsed (ts_max, 10_000_000_000, is
\* beyond the integers of TLC and stands as their largest; the model has no
\* timestamp near either), and the call of
\* portfolio_service.get_orders fails, PortfolioService (services.py 83-91)
\* having no such method
handle_get_orders(arguments, u) ==
    LET invalid ==
            IF arguments = None THEN Pending
            ELSE FirstRaise(<<
                _parse_optional_str(arguments, "ticker", "ticker must be a string.",
                                    "ticker must be a non-empty string."),
                _parse_optional_str(arguments, "event_ticker", "event_ticker must be a string.",
                                    "event_ticker must be a non-empty string."),
                _parse_optional_str(arguments, "cursor", "cursor must be a string.",
                                    "cursor must be a non-empty string."),
                orders_status(arguments),
                _parse_optional_int(arguments, "min_ts", "min_ts must be an integer.",
                                    "min_ts must be a non-negative integer.", 0, 2147483647),
                _parse_optional_int(arguments, "max_ts", "max_ts must be an integer.",
                                    "max_ts must be a non-negative integer.", 0, 2147483647),
                _parse_optional_int(arguments, "limit", "limit must be an integer.",
                                    "limit must be between 1 and 200.", 1, 200),
                _parse_optional_int(arguments, "subaccount", "subaccount must be an integer.",
                                    "subaccount must be between 0 and 32.", 0, 32)>>)
    IN  IF invalid # Pending THEN invalid
        ELSE Raise("AttributeError", "'PortfolioService' object has no attribute 'get_orders'")

\* the names build_tool_handlers registers whose handlers this model covers
build_tool_handlers ==
    {"get_tags_for_series_categories", "get_balance", "get_subaccount_balances",
     "get_categories", "get_tags_for_series_category", "get_series_list",
     "get_open_markets_for_series", "get_open_market_titles_for_series",
     "get_series_tickers_for_category", "get_orders"}

\* handler(arguments) for the handler registered under tool_name
Handler(tool_name, arguments, u) ==
    CASE tool_name = "get_tags_for_series_categories" ->
            handle_get_tags_for_series_categories(arguments, u)
      [] tool_name = "get_balance" -> handle_get_balance(arguments, u)
      [] tool_name = "get_subaccount_balances" -> handle_get_subaccount_balances(arguments, u)
      [] tool_name = "get_categories" -> handle_get_categories(arguments, u)
      [] tool_name = "get_tags_for_series_category" ->
            handle_get_tags_for_series_category(arguments, u)
      [] tool_name = "get_series_list" -> handle_get_series_list(arguments, u)
      [] tool_name \in PagingTools -> handle_paging(tool_name, arguments, u)
      [] tool_name = "get_orders" -> handle_get_orders(arguments, u)

----------------------------------------------------------------------------
(* server.py: ToolRegistry *)

ToolRegistry_list_tools ==
    List(<<[name |-> Str("get_tags_for_series_categories")],
           [name |-> Str("get_categories")],
           [name |-> Str("get_tags_for_series_category")],
           [name |-> Str("get_series_list")],
           [name |-> Str("get_markets")],
           [name |-> Str("get_series_tickers_for_category")]>>)

ToolRegistry_call_tool(tool_name, arguments, u) ==
    After(<<[callee |-> "ToolRegistry.call_tool", arg |-> tool_name, arguments |-> arguments]>>,
          IF tool_name \notin build_tool_handlers THEN
              Raise("ValueError", "Unknown tool: " \o tool_name)
          ELSE After(<<[callee |-> "handler", arg |-> tool_name]>>,
                     Handler(tool_name, arguments, u)))

----------------------------------------------------------------------------
(* mcp/resources.py: ResourceRegistry *)

\* urllib.parse.urlparse on the URIs of the model; path is given by its
\* segments, the strings between the slashes after the leading one, and query
\* by its key=value pairs in order
Parsed3(scheme, path, query) == [scheme |-> scheme, path |-> path, query |-> query]

urlparse(uri) ==
    CASE uri = "kalshi:///categories" -> Parsed3("kalshi", <<"categories">>, <<>>)
      [] uri = "kalshi://categories" -> Parsed3("kalshi", <<>>, <<>>)
      [] uri = "kalshi:///portfolio/balance" ->
            Parsed3("kalshi", <<"portfolio", "balance">>, <<>>)
      [] uri = "kalshi:///portfolio/subaccount_balances" ->
            Parsed3("kalshi", <<"portfolio", "subaccount_balances">>, <<>>)
      [] uri = "kalshi:///tags_by_categories" ->
            Parsed3("kalshi", <<"tags_by_categories">>, <<>>)
      [] uri = "kalshi:///category/Politics/tags" ->
            Parsed3("kalshi", <<"category", "Politics", "tags">>, <<>>)
      [] uri = "kalshi:///category/Sports/tags" ->
            Parsed3("kalshi", <<"category", "Sports", "tags">>, <<>>)
      [] uri = "kalshi:///category/Pol%69tics/tags" ->
            Parsed3("kalshi", <<"category", "Pol%69tics", "tags">>, <<>>)
      [] uri = "kalshi:///category/a/b/tags" ->
            Parsed3("kalshi", <<"category", "a", "b", "tags">>, <<>>)
      [] uri = "kalshi:///category/Politics/series_tickers?tags=Fed&limit=50&max_pages=2" ->
            Parsed3("kalshi", <<"category", "Politics", "series_tickers">>,
                    <<<<"tags", "Fed">>, <<"limit", "50">>, <<"max_pages", "2">>>>)
      [] uri = "kalshi:///category/Politics/series_tickers?limit=abc" ->
            Parsed3("kalshi", <<"category", "Politics", "series_tickers">>,
                    <<<<"limit", "abc">>>>)
      [] uri = "kalshi:///category/series_tickers" ->
            Parsed3("kalshi", <<"category", "series_tickers">>, <<>>)
      [] uri = "kalshi:///series?category=Politics&limit= 2 &include_volume=yes" ->
            Parsed3("kalshi", <<"series">>,
                    <<<<"category", "Politics">>, <<"limit", " 2 ">>,
                      <<"include_volume", "yes">>>>)
      [] uri = "kalshi:///series?include_volume=maybe" ->
            Parsed3("kalshi", <<"series">>, <<<<"include_volume", "maybe">>>>)
      [] uri = "kalshi:///portfolio/orders?status=resting&limit=50" ->
            Parsed3("kalshi", <<"portfolio", "orders">>,
                    <<<<"status", "resting">>, <<"limit", "50">>>>)
      [] uri = "kalshi:///series/KXFED/open_markets?max_pages=1&limit=" ->
            Parsed3("kalshi", <<"series", "KXFED", "open_markets">>,
                    <<<<"max_pages", "1">>, <<"limit", "">>>>)
      [] uri = "kalshi:///series/KXFED/open_market_titles" ->
            Parsed3("kalshi", <<"series", "KXFED", "open_market_titles">>, <<>>)
      [] uri = "kalshi:///series/a/b/open_markets" ->
            Parsed3("kalshi", <<"series", "a", "b", "open_markets">>, <<>>)
      [] uri = "kalshi:///nowhere" -> Parsed3("kalshi", <<"nowhere">>, <<>>)
      [] uri = "https://example.com/categories" -> Parsed3("https", <<"categories">>, <<>>)

\* urllib.parse.unquote on the path segments of the model
unquote(s) == IF s = "Pol%69tics" THEN "Politics" ELSE s

\* path.startswith("/" + first + "/") and path.endswith("/" + last)
StartsWith(path, first) == Len(path) >= 2 /\ path[1] = first
EndsWith(path, last) == Len(path) >= 1 /\ path[Len(path)] = last
\* [p for p in path.split("/") if p]
Parts(path) == SelectSeq(path, LAMBDA p : p # "")

\* urllib.parse.parse_qs(query, keep_blank_values=False): for each key the
\* list of its values that are not blank
parse_qs(query) ==
    LET kept == SelectSeq(query, LAMBDA pair : pair[2] # "")
        values(key) == SelectSeq(kept, LAMBDA pair : pair[1] = key)
    IN  [key \in {kept[i][1] : i \in 1..Len(kept)} |->
            [i \in 1..Len(values(key)) |-> values(key)[i][2]]]

\* int(normalized, 10) on the query values of the model
Decimals == ("1" :> 1) @@ ("2" :> 2) @@ ("50" :> 50)

\* resources._parse_int
resources__parse_int(value) ==
    IF Strip(value) = "" \/ Strip(value) \notin DOMAIN Decimals THEN
        Raise("ValueError", "Expected integer query value")
    ELSE Return(Num(Decimals[Strip(value)]))

\* resources._parse_bool; the query values of the model are in lower case
resources__parse_bool(value) ==
    IF Strip(value) \in {"true", "1", "yes", "y", "t"} THEN Return(Bool(TRUE))
    ELSE IF Strip(value) \in {"false", "0", "no", "n", "f"} THEN Return(Bool(FALSE))
    ELSE Raise("ValueError", "Expected boolean query value (true/false)")

\* `if key in q and q[key]: args[key] = ...` for a field <<key, kind>>: the
\* argument it adds, if any
QueryArg(q, field) ==
    IF field[1] \notin DOMAIN q \/ q[field[1]] = <<>> THEN Return(EmptyDict)
    ELSE LET value == q[field[1]][1]
             then(o) == IF Raised(o) THEN o ELSE Return(field[1] :> o.return)
         IN  CASE field[2] = "int" -> then(resources__parse_int(value))
               [] field[2] = "bool" -> then(resources__parse_bool(value))
               [] OTHER -> Return(field[1] :> Str(value))

\* the arguments a route builds from the query, field after field
RECURSIVE QueryArgs(_, _, _)
QueryArgs(q, fields, args) ==
    IF fields = <<>> THEN Return(args)
    ELSE LET then(o) ==
                 IF Raised(o) THEN o ELSE QueryArgs(q, Tail(fields), o.return @@ args)
         IN  then(QueryArg(q, Head(fields)))

\* a route that calls its tool although the arguments could not be built
M_Routed_in_any_case(tool_name, o, u) ==
    ToolRegistry_call_tool(tool_name, IF Raised(o) THEN EmptyDict ELSE o.return, u)

\* `return self._tool_registry.call_tool(tool_name, args)` once args are built
Routed(tool_name, o, u) ==
    IF Raised(o) THEN o ELSE ToolRegistry_call_tool(tool_name, o.return, u)

\* what a route has when it comes to its return statement: the tool to call
\* and the arguments built from the query, or the ValueError raised on the way
Route(tool_name, o) == [tool |-> tool_name, args |-> o]

\* a route /first/{value}/last
Parameterized(path, first, last, invalid, key, tool_name, fields, query) ==
    LET then(parts) ==
            IF Len(parts) # 3 \/ parts[1] # first \/ parts[3] # last THEN
                Route(tool_name, Raise("ValueError", invalid))
            ELSE Route(tool_name,
                       QueryArgs(parse_qs(query), fields, key :> Str(unquote(parts[2]))))
    IN  then(Parts(path))

PAGE_FIELDS == <<<<"limit", "int">>, <<"max_pages", "int">>>>

\* _route up to the return statement of the branch taken
route_taken(path, query) ==
    IF path = <<"categories">> THEN Route("get_categories", Return(EmptyDict))
    ELSE IF path = <<"portfolio", "balance">> THEN Route("get_balance", Return(EmptyDict))
    ELSE IF path = <<"portfolio", "subaccount_balances">> THEN
        Route("get_subaccount_balances", Return(EmptyDict))
    ELSE IF path = <<"tags_by_categories">> THEN
        Route("get_tags_for_series_categories", Return(EmptyDict))
    ELSE IF StartsWith(path, "category") /\ EndsWith(path, "tags") THEN
        Parameterized(path, "category", "tags", "Invalid category tags resource uri",
                      "category", "get_tags_for_series_category", <<>>, query)
    ELSE IF StartsWith(path, "category") /\ EndsWith(path, "series_tickers") THEN
        Parameterized(path, "category", "series_tickers",
                      "Invalid category series tickers resource uri",
                      "category", "get_series_tickers_for_category",
                      <<<<"tags", "str">>>> \o PAGE_FIELDS, query)
    ELSE IF path = <<"series">> THEN
        Route("get_series_list",
              QueryArgs(parse_qs(query),
                        <<<<"category", "str">>, <<"tags", "str">>, <<"cursor", "str">>,
                          <<"limit", "int">>, <<"include_product_metadata", "bool">>,
                          <<"include_volume", "bool">>>>,
                        EmptyDict))
    ELSE IF path = <<"portfolio", "orders">> THEN
        Route("get_orders",
              QueryArgs(parse_qs(query),
                        <<<<"ticker", "str">>, <<"event_ticker", "str">>, <<"status", "str">>,
                          <<"min_ts", "int">>, <<"max_ts", "int">>, <<"limit", "int">>,
                          <<"cursor", "str">>, <<"subaccount", "int">>>>,
                        EmptyDict))
    ELSE IF StartsWith(path, "series") /\ EndsWith(path, "open_markets") THEN
        Parameterized(path, "series", "open_markets",
                      "Invalid series open markets resource uri",
                      "series_ticker", "get_open_markets_for_series", PAGE_FIELDS, query)
    ELSE IF StartsWith(path, "series") /\ EndsWith(path, "open_market_titles") THEN
        Parameterized(path, "series", "open_market_titles",
                      "Invalid series open market titles resource uri",
                      "series_ticker", "get_open_market_titles_for_series", PAGE_FIELDS,
                      query)
    ELSE Route("", Raise("ValueError", "Unknown resource uri"))

ResourceRegistry__route(path, query, u) ==
    LET then(taken) == Routed(taken.tool, taken.args, u)
    IN  then(route_taken(path, query))

ResourceRegistry_read_resource(uri, u) ==
    After(<<[callee |-> "ResourceRegistry.read_resource", arg |-> IF IsStr(uri) THEN uri.s ELSE ""]>>,
          IF ~IsStr(uri) \/ uri.s = "" THEN Raise("ValueError", "Missing resource uri")
          ELSE LET contents(o) ==
                       IF Raised(o) THEN o
                       ELSE After(o.calls,
                                  Return([contents |->
                                             <<[uri |-> uri,
                                                mimeType |-> Str("application/json"),
                                                text |-> DumpsPretty(o.return)]>>]))
                   then(parsed) ==
                       IF parsed.scheme # "kalshi" THEN
                           Raise("ValueError", "Unsupported resource scheme (expected kalshi://)")
                       ELSE contents(ResourceRegistry__route(parsed.path, parsed.query, u))
               IN  then(urlparse(uri.s)))

ResourceRegistry_list_resources ==
    List(<<[uri |-> Str("kalshi:///categories")],
           [uri |-> Str("kalshi:///portfolio/balance")],
           [uri |-> Str("kalshi:///portfolio/subaccount_balances")],
           [uri |-> Str("kalshi:///tags_by_categories")]>>)

ResourceRegistry_list_resource_templates ==
    List(<<[uriTemplate |-> Str("kalshi:///category/{category}/tags")],
           [uriTemplate |-> Str("kalshi:///category/{category}/series_tickers{?tags,limit,max_pages}")],
           [uriTemplate |-> Str("kalshi:///series/{series_ticker}/open_markets{?limit,max_pages}")],
           [uriTemplate |-> Str("kalshi:///series/{series_ticker}/open_market_titles{?limit,max_pages}")],
           [uriTemplate |-> Str("kalshi:///series{?category,tags,cursor,limit,include_product_metadata,include_volume}")],
           [uriTemplate |-> Str("kalshi:///portfolio/orders{?ticker,event_ticker,status,min_ts,max_ts,limit,cursor,subaccount}")]>>)

----------------------------------------------------------------------------
(* server.py: StdioMCPServer *)

\* mutant: the result response loses the request's id
M_result_response_null_id(request_id, result) ==
    [jsonrpc |-> JSONRPC_VERSION, id |-> None, result |-> result]

_result_response(request_id, result) ==
    [jsonrpc |-> JSONRPC_VERSION, id |-> request_id, result |-> result]

\* mutant: the error object never carries data
M_error_response_without_data(request_id, code, message, data) ==
    [jsonrpc |-> JSONRPC_VERSION, id |-> request_id,
     error |-> [code |-> Num(code), message |-> Str(message)]]

_error_response(request_id, code, message, data) ==
    LET error == [code |-> Num(code), message |-> Str(message)]
                 @@ (IF data # None THEN [data |-> data] ELSE EmptyDict)
    IN  [jsonrpc |-> JSONRPC_VERSION, id |-> request_id, error |-> error]

\* What one message leaves behind: its response (None when there is none),
\* the session flag after it and the collaborator invocations it made.
Handled(response, init, log) == [response |-> response, initialized |-> init, calls |-> log]

\* mutant: the client's protocol version is ignored
M_initialize_default_version(params) ==
    IF ~IsDict(params) THEN Raise("ValueError", "Invalid params for initialize")
    ELSE Return([protocolVersion |-> DEFAULT_PROTOCOL_VERSION,
                 capabilities |->
                     [tools |-> [listChanged |-> Bool(FALSE)]]
                     @@ (IF resources
                         THEN [resources |-> [subscribe |-> Bool(FALSE),
                                              listChanged |-> Bool(FALSE)]]
                         ELSE EmptyDict),
                 serverInfo |-> [name |-> Str("kalshi-mcp-server"),
                                 version |-> Str("0.1.0")]])

_initialize(params) ==
    IF ~IsDict(params) THEN Raise("ValueError", "Invalid params for initialize")
    ELSE LET default(given) ==
                 IF ~IsStr(given) \/ given.s = "" THEN DEFAULT_PROTOCOL_VERSION ELSE given
             protocol_version == default(Get(params, "protocolVersion"))
             capabilities ==
                 [tools |-> [listChanged |-> Bool(FALSE)]]
                 @@ (IF resources
                     THEN [resources |-> [subscribe |-> Bool(FALSE), listChanged |-> Bool(FALSE)]]
                     ELSE EmptyDict)
         IN  Return([protocolVersion |-> protocol_version,
                     capabilities |-> capabilities,
                     serverInfo |-> [name |-> Str("kalshi-mcp-server"),
                                     version |-> Str("0.1.0")]])

\* mutant: the not-initialized result is not flagged as an error
M_call_tool_not_initialized_ok ==
    [content |-> <<[type |-> Str("text"), text |-> Str(NOT_INITIALIZED_TEXT)]>>,
     isError |-> Bool(FALSE)]

\* _call_tool, lines 232-241: the result for a session that is not initialized
_call_tool_not_initialized ==
    [content |-> <<[type |-> Str("text"), text |-> Str(NOT_INITIALIZED_TEXT)]>>,
     isError |-> Bool(TRUE)]

\* mutant: a raised outcome is reported with isError false
M_call_tool_result_hides_error(o) ==
    IF Raised(o) THEN
        [content |-> <<[type |-> Str("text"), text |-> Str(o.text)]>>,
         isError |-> Bool(FALSE)]
    ELSE
        [content |-> <<[type |-> Str("text"), text |-> Dumps(o.return)]>>,
         structuredContent |-> o.return,
         isError |-> Bool(FALSE)]

\* _call_tool, lines 243-255: the result made of the registry's outcome
_call_tool_result(o) ==
    IF Raised(o) THEN
        [content |-> <<[type |-> Str("text"), text |-> Str(o.text)]>>,
         isError |-> Bool(TRUE)]
    ELSE
        [content |-> <<[type |-> Str("text"), text |-> Dumps(o.return)]>>,
         structuredContent |-> o.return,
         isError |-> Bool(FALSE)]

\* mutant: the tool is called whether or not the session is initialized
M_call_tool_without_initialized(params, init, u) ==
    IF ~IsDict(params) THEN Raise("ValueError", "Invalid params for tools/call")
    ELSE LET result(o) == After(o.calls, Return(_call_tool_result(o)))
             then(name, arguments) ==
                 IF ~IsStr(name) \/ name.s = "" THEN Raise("ValueError", "Missing tool name")
                 ELSE IF arguments # None /\ ~IsDict(arguments) THEN
                     Raise("ValueError", "Tool arguments must be an object")
                 ELSE result(ToolRegistry_call_tool(name.s, arguments, u))
         IN  then(Get(params, "name"), Get(params, "arguments"))

\* mutant: the session flag is looked at before the envelope
M_call_tool_initialized_first(params, init, u) ==
    IF ~init THEN Return(_call_tool_not_initialized)
    ELSE IF ~IsDict(params) THEN Raise("ValueError", "Invalid params for tools/call")
    ELSE LET result(o) == After(o.calls, Return(_call_tool_result(o)))
             then(name, arguments) ==
                 IF ~IsStr(name) \/ name.s = "" THEN Raise("ValueError", "Missing tool name")
                 ELSE IF arguments # None /\ ~IsDict(arguments) THEN
                     Raise("ValueError", "Tool arguments must be an object")
                 ELSE result(ToolRegistry_call_tool(name.s, arguments, u))
         IN  then(Get(params, "name"), Get(params, "arguments"))

_call_tool(params, init, u) ==
    IF ~IsDict(params) THEN Raise("ValueError", "Invalid params for tools/call")
    ELSE LET result(o) == After(o.calls, Return(_call_tool_result(o)))
             then(name, arguments) ==
                 IF ~IsStr(name) \/ name.s = "" THEN Raise("ValueError", "Missing tool name")
                 ELSE IF arguments # None /\ ~IsDict(arguments) THEN
                     Raise("ValueError", "Tool arguments must be an object")
                 ELSE IF ~init THEN Return(_call_tool_not_initialized)
                 ELSE result(ToolRegistry_call_tool(name.s, arguments, u))
         IN  then(Get(params, "name"), Get(params, "arguments"))

\* mutant: the resources methods do not check the session flag
M_resources_gate_without_initialized(request_id, init) ==
    IF ~resources THEN _error_response(request_id, -32601, "Method not found", None)
    ELSE None

\* mutant: the session flag is checked before the capability
M_resources_gate_initialized_first(request_id, init) ==
    IF ~init THEN _error_response(request_id, -32603, NOT_INITIALIZED_TEXT, None)
    ELSE IF ~resources THEN _error_response(request_id, -32601, "Method not found", None)
    ELSE None

\* _handle_request, lines 156-163, 168-175 and 185-192: the two checks in
\* front of every resources method; None when the request may proceed
_resources_gate(request_id, init) ==
    IF ~resources THEN _error_response(request_id, -32601, "Method not found", None)
    ELSE IF ~init THEN _error_response(request_id, -32603, NOT_INITIALIZED_TEXT, None)
    ELSE None

\* _handle_request, lines 176-182: the body of resources/read behind the gate
_read_resource(params, u) ==
    IF ~IsDict(params) THEN Raise("ValueError", "Invalid params for resources/read")
    ELSE LET then(uri) ==
                 IF ~IsStr(uri) \/ uri.s = "" THEN Raise("ValueError", "Missing resource uri")
                 ELSE ResourceRegistry_read_resource(uri, u)
         IN  then(Get(params, "uri"))

\* mutant: every exception is reported as an internal error
M_handle_request_try_all_internal(request_id, o) ==
    IF ~Raised(o) THEN _result_response(request_id, o.return)
    ELSE _error_response(request_id, -32603, "Internal error", [detail |-> Str(o.text)])

\* _handle_request, lines 139-200: the try statement around outcome o of the
\* method's body: its result as a response, or the except clauses
_handle_request_try(request_id, o) ==
    IF ~Raised(o) THEN _result_response(request_id, o.return)
    ELSE IF o.raise = "ValueError" THEN _error_response(request_id, -32602, o.text, None)
    ELSE _error_response(request_id, -32603, "Internal error", [detail |-> Str(o.text)])

\* mutant: tools/list waits for the handshake like tools/call
M_handle_request_body_tools_list_gated(method, params, init, u) ==
    CASE method = "initialize" -> _initialize(params)
      [] method = "ping" -> Return(EmptyDict)
      [] method = "tools/list" ->
            IF ~init THEN Raise("RuntimeError", NOT_INITIALIZED_TEXT)
            ELSE After(<<[callee |-> "ToolRegistry.list_tools", arg |-> ""]>>,
                       Return([tools |-> ToolRegistry_list_tools]))
      [] method = "tools/call" -> _call_tool(params, init, u)
      [] method = "resources/list" ->
            After(<<[callee |-> "ResourceRegistry.list_resources", arg |-> ""]>>,
                  Return([resources |-> ResourceRegistry_list_resources]))
      [] method = "resources/read" -> _read_resource(params, u)
      [] method = "resources/templates/list" ->
            After(<<[callee |-> "ResourceRegistry.list_resource_templates", arg |-> ""]>>,
                  Return([resourceTemplates |-> ResourceRegistry_list_resource_templates]))

\* the body of the method: on which outcome the try statement acts
_handle_request_body(method, params, init, u) ==
    CASE method = "initialize" -> _initialize(params)
      [] method = "ping" -> Return(EmptyDict)
      [] method = "tools/list" ->
            After(<<[callee |-> "ToolRegistry.list_tools", arg |-> ""]>>,
                  Return([tools |-> ToolRegistry_list_tools]))
      [] method = "tools/call" -> _call_tool(params, init, u)
      [] method = "resources/list" ->
            After(<<[callee |-> "ResourceRegistry.list_resources", arg |-> ""]>>,
                  Return([resources |-> ResourceRegistry_list_resources]))
      [] method = "resources/read" -> _read_resource(params, u)
      [] method = "resources/templates/list" ->
            After(<<[callee |-> "ResourceRegistry.list_resource_templates", arg |-> ""]>>,
                  Return([resourceTemplates |-> ResourceRegistry_list_resource_templates]))

ResourceMethods == {"resources/list", "resources/read", "resources/templates/list"}
RequestMethods == {"initialize", "ping", "tools/list", "tools/call"} \cup ResourceMethods

\* mutant: an unknown method ends the session's initialized state
M_handle_request_unknown_method_resets(request_id, method, params, init, u) ==
    IF request_id = None THEN
        Handled(_error_response(None, -32600, "Invalid Request", None), init, <<>>)
    ELSE IF method \notin RequestMethods THEN
        Handled(_error_response(request_id, -32601, "Method not found", None), FALSE, <<>>)
    ELSE LET try(o) == Handled(_handle_request_try(request_id, o), init, Stamp(o.calls, init))
             then(gate) ==
                 IF method \in ResourceMethods /\ gate # None THEN Handled(gate, init, <<>>)
                 ELSE try(_handle_request_body(method, params, init, u))
         IN  then(_resources_gate(request_id, init))

\* mutant: a request for notifications/initialized is taken as the notification
M_handle_request_initialized_by_request(request_id, method, params, init, u) ==
    IF request_id = None THEN
        Handled(_error_response(None, -32600, "Invalid Request", None), init, <<>>)
    ELSE IF method = "notifications/initialized" THEN
        Handled(_result_response(request_id, EmptyDict), TRUE, <<>>)
    ELSE IF method \notin RequestMethods THEN
        Handled(_error_response(request_id, -32601, "Method not found", None), init, <<>>)
    ELSE LET try(o) == Handled(_handle_request_try(request_id, o), init, Stamp(o.calls, init))
             then(gate) ==
                 IF method \in ResourceMethods /\ gate # None THEN Handled(gate, init, <<>>)
                 ELSE try(_handle_request_body(method, params, init, u))
         IN  then(_resources_gate(request_id, init))

_handle_request(request_id, method, params, init, u) ==
    IF request_id = None THEN
        Handled(_error_response(None, -32600, "Invalid Request", None), init, <<>>)
    ELSE IF method \notin RequestMethods THEN
        Handled(_error_response(request_id, -32601, "Method not found", None), init, <<>>)
    ELSE LET try(o) == Handled(_handle_request_try(request_id, o), init, Stamp(o.calls, init))
             then(gate) ==
                 IF method \in ResourceMethods /\ gate # None THEN Handled(gate, init, <<>>)
                 ELSE try(_handle_request_body(method, params, init, u))
         IN  then(_resources_gate(request_id, init))

\* mutant: every notification initializes the session
M_handle_notification_any_method(method, params, init) == Handled(None, TRUE, <<>>)

_handle_notification(method, params, init) ==
    IF method = "notifications/initialized" THEN Handled(None, TRUE, <<>>)
    ELSE Handled(None, init, <<>>)

\* mutant: a response of the client is rejected like any other object
\* without a method
M_handle_one_message_rejects_responses(message, init, u) ==
    IF ~IsDict(message) THEN
        Handled(_error_response(None, -32600, "Invalid Request", None), init, <<>>)
    ELSE IF Get(message, "jsonrpc") # JSONRPC_VERSION THEN
        Handled(_error_response(Get(message, "id"), -32600, "Invalid Request", None), init, <<>>)
    ELSE IF IsStr(Get(message, "method")) THEN
        IF "id" \in DOMAIN message THEN
            _handle_request(Get(message, "id"), message.method.s, Get(message, "params"), init, u)
        ELSE
            Handled(None,
                    _handle_notification(message.method.s, Get(message, "params"), init).initialized,
                    <<>>)
    ELSE
        Handled(_error_response(Get(message, "id"), -32600, "Invalid Request", None), init, <<>>)

\* mutant: a notification is taken before the version is looked at
M_handle_one_message_classifies_first(message, init, u) ==
    IF ~IsDict(message) THEN
        Handled(_error_response(None, -32600, "Invalid Request", None), init, <<>>)
    ELSE IF IsStr(Get(message, "method")) /\ "id" \notin DOMAIN message THEN
        Handled(None,
                _handle_notification(message.method.s, Get(message, "params"), init).initialized,
                <<>>)
    ELSE IF Get(message, "jsonrpc") # JSONRPC_VERSION THEN
        Handled(_error_response(Get(message, "id"), -32600, "Invalid Request", None), init, <<>>)
    ELSE IF IsStr(Get(message, "method")) THEN
        _handle_request(Get(message, "id"), message.method.s, Get(message, "params"), init, u)
    ELSE IF "id" \in DOMAIN message /\ ("result" \in DOMAIN message \/ "error" \in DOMAIN message) THEN
        Handled(None, init, <<>>)
    ELSE
        Handled(_error_response(Get(message, "id"), -32600, "Invalid Request", None), init, <<>>)

_handle_one_message(message, init, u) ==
    IF ~IsDict(message) THEN
        Handled(_error_response(None, -32600, "Invalid Request", None), init, <<>>)
    ELSE IF Get(message, "jsonrpc") # JSONRPC_VERSION THEN
        Handled(_error_response(Get(message, "id"), -32600, "Invalid Request", None), init, <<>>)
    ELSE IF IsStr(Get(message, "method")) THEN
        IF "id" \in DOMAIN message THEN
            _handle_request(Get(message, "id"), message.method.s, Get(message, "params"), init, u)
        ELSE
            Handled(None,
                    _handle_notification(message.method.s, Get(message, "params"), init).initialized,
                    <<>>)
    ELSE IF "id" \in DOMAIN message /\ ("result" \in DOMAIN message \/ "error" \in DOMAIN message) THEN
        Handled(None, init, <<>>)
    ELSE
        Handled(_error_response(Get(message, "id"), -32600, "Invalid Request", None), init, <<>>)

\* What one line leaves behind: the payloads written for it, the session
\* flag after it and the collaborator invocations made for it.
Written(payloads, init, log) == [written |-> payloads, initialized |-> init, calls |-> log]

\* mutant: the items of a batch are all handled in the session state the
\* batch found
RECURSIVE M_handle_incoming_loop_flag_not_carried(_, _, _, _)
M_handle_incoming_loop_flag_not_carried(items, i, acc, u) ==
    IF i > Len(items) THEN acc
    ELSE LET collect(h) ==
                 Written(IF h.response # None THEN Append(acc.written, h.response)
                         ELSE acc.written,
                         acc.initialized, acc.calls \o h.calls)
         IN  M_handle_incoming_loop_flag_not_carried(
                 items, i + 1, collect(_handle_one_message(items[i], acc.initialized, u)), u)

\* _handle_incoming, lines 92-96: the loop over the items of a batch from
\* item i on; acc holds the responses, the session flag and the invocations so far
RECURSIVE _handle_incoming_loop(_, _, _, _)
_handle_incoming_loop(items, i, acc, u) ==
    IF i > Len(items) THEN acc
    ELSE LET collect(h) ==
                 Written(IF h.response # None THEN Append(acc.written, h.response)
                         ELSE acc.written,
                         h.initialized, acc.calls \o h.calls)
         IN  _handle_incoming_loop(items, i + 1,
                                   collect(_handle_one_message(items[i], acc.initialized, u)), u)

\* mutant: a batch without responses writes an empty array
M_handle_incoming_writes_empty_batch(message, init, u) ==
    IF IsList(message) THEN
        IF message.items = <<>> THEN
            Written(<<_error_response(None, -32600, "Invalid Request", None)>>, init, <<>>)
        ELSE LET write(done) ==
                     Written(<<List(done.written)>>, done.initialized, done.calls)
             IN  write(_handle_incoming_loop(message.items, 1, Written(<<>>, init, <<>>), u))
    ELSE LET write(h) ==
                 IF h.response # None THEN Written(<<h.response>>, h.initialized, h.calls)
                 ELSE Written(<<>>, h.initialized, h.calls)
         IN  write(_handle_one_message(message, init, u))

\* mutant: a batch is answered with the response of its first answered item
M_handle_incoming_first_response_only(message, init, u) ==
    IF IsList(message) THEN
        IF message.items = <<>> THEN
            Written(<<_error_response(None, -32600, "Invalid Request", None)>>, init, <<>>)
        ELSE LET write(done) ==
                     IF done.written = <<>> THEN Written(<<>>, done.initialized, done.calls)
                     ELSE Written(<<List(<<done.written[1]>>)>>, done.initialized, done.calls)
             IN  write(_handle_incoming_loop(message.items, 1, Written(<<>>, init, <<>>), u))
    ELSE LET write(h) ==
                 IF h.response # None THEN Written(<<h.response>>, h.initialized, h.calls)
                 ELSE Written(<<>>, h.initialized, h.calls)
         IN  write(_handle_one_message(message, init, u))

_handle_incoming(message, init, u) ==
    IF IsList(message) THEN
        IF message.items = <<>> THEN
            Written(<<_error_response(None, -32600, "Invalid Request", None)>>, init, <<>>)
        ELSE LET write(done) ==
                     IF done.written = <<>> THEN Written(<<>>, done.initialized, done.calls)
                     ELSE Written(<<List(done.written)>>, done.initialized, done.calls)
             IN  write(_handle_incoming_loop(message.items, 1, Written(<<>>, init, <<>>), u))
    ELSE LET write(h) ==
                 IF h.response # None THEN Written(<<h.response>>, h.initialized, h.calls)
                 ELSE Written(<<>>, h.initialized, h.calls)
         IN  write(_handle_one_message(message, init, u))

\* json.loads(line): the value of a line that is JSON text, JSONDecodeError otherwise
json_loads(raw) ==
    IF raw.raw = "json" THEN Return(raw.value)
    ELSE Raise("JSONDecodeError", "Expecting value")

\* mutant: JSONDecodeError is not caught and ends the loop
M_run_body_parse_error_ends_loop(raw, init, u) ==
    IF raw.raw = "blank" THEN Written(<<>>, init, <<>>) @@ [loop |-> "continue"]
    ELSE LET then(message) ==
                 IF Raised(message) THEN Written(<<>>, init, <<>>) @@ [loop |-> "break"]
                 ELSE _handle_incoming(message.return, init, u) @@ [loop |-> "continue"]
         IN  then(json_loads(raw))

\* run, lines 73-83: the body of the read loop for one raw line; loop tells
\* whether the for statement goes on with the next line
run_body(raw, init, u) ==
    IF raw.raw = "blank" THEN Written(<<>>, init, <<>>) @@ [loop |-> "continue"]
    ELSE LET then(message) ==
                 IF Raised(message) THEN
                     Written(<<_error_response(None, -32700, "Parse error", None)>>, init, <<>>)
                     @@ [loop |-> "continue"]
                 ELSE _handle_incoming(message.return, init, u) @@ [loop |-> "continue"]
         IN  then(json_loads(raw))

----------------------------------------------------------------------------
(* kalshi_client.py: request signing.  The strings the client takes apart   *)
(* (URLs, paths) are sequences of tokens: each "/", "?", "#" and ":" is a   *)
(* token of its own and every other token is a run of other characters.     *)

RECURSIVE Text(_)
Text(tokens) == IF tokens = <<>> THEN "" ELSE tokens[1] \o Text(Tail(tokens))

\* the index of the first token of `tokens` that is in `seps`, from index
\* `from` on; Len(tokens) + 1 when there is none
FirstOf(tokens, seps, from) ==
    LET hits == {i \in from..Len(tokens) : tokens[i] \in seps}
    IN  IF hits = {} THEN Len(tokens) + 1
        ELSE CHOOSE i \in hits : \A j \in hits : i <= j

\* urllib.parse.urlparse(url).path for scheme://netloc/path?query#fragment
urlparse_path(url) ==
    IF Len(url) >= 4 /\ url[2] = ":" /\ url[3] = "/" /\ url[4] = "/" THEN
        SubSeq(url, FirstOf(url, {"/", "?", "#"}, 5), FirstOf(url, {"?", "#"}, 5) - 1)
    ELSE SubSeq(url, 1, FirstOf(url, {"?", "#"}, 1) - 1)

\* str.rstrip("/")
RECURSIVE rstrip(_)
rstrip(tokens) ==
    IF tokens # <<>> /\ tokens[Len(tokens)] = "/"
    THEN rstrip(SubSeq(tokens, 1, Len(tokens) - 1))
    ELSE tokens

\* str.upper() of an HTTP method
upper(method) ==
    CASE method = "get" -> "GET"
      [] method = "post" -> "POST"
      [] OTHER -> method

\* mutant: the query string is signed with the path
M_path_for_signing_keeps_query(path, base_url) ==
    LET request_path == IF path # <<>> /\ path[1] = "/" THEN path ELSE <<"/">> \o path
        base_path == rstrip(urlparse_path(base_url))
    IN  IF base_path # <<>> THEN base_path \o request_path ELSE request_path

_path_for_signing(path, base_url) ==
    LET request_path == IF path # <<>> /\ path[1] = "/" THEN path ELSE <<"/">> \o path
        split(p) == SubSeq(p, 1, FirstOf(p, {"?"}, 1) - 1)
        base_path == rstrip(urlparse_path(base_url))
    IN  IF base_path # <<>> THEN base_path \o split(request_path) ELSE split(request_path)

\* `not value` for an optional string setting
Unset(value) == value = None \/ value = Str("")

\* the private key serialization.load_pem_private_key makes of the file: an
\* RSA key, a key of another kind, or no key (the bytes are not a PEM key)
load_pem_private_key(file) ==
    CASE file = "rsa_pem" -> "rsa"
      [] file = "ec_pem" -> "ec"
      [] OTHER -> "none"

\* mutant: the salt is as long as the key allows
M_sign_max_salt(key, message) ==
    [encoding |-> "base64", key |-> key, message |-> message, hash |-> "SHA256",
     padding |-> "PSS", mgf |-> "MGF1(SHA256)", salt_length |-> "MAX_LENGTH"]

\* _sign_message, lines 1153-1164: what the signature is made of
sign(key, message) ==
    [encoding |-> "base64", key |-> key, message |-> message, hash |-> "SHA256",
     padding |-> "PSS", mgf |-> "MGF1(SHA256)", salt_length |-> "DIGEST_LENGTH"]

\* What signing leaves behind: the signature or the KalshiClientError, the
\* cached key after it and the reads of the key file it made.
Signed(o, cached, reads) == o @@ [cached |-> cached, reads |-> reads]

\* mutant: the key is loaded for every signature and never kept
M_sign_message_without_cache(message, cached, api_key_path, file) ==
    IF file = "missing" THEN
        Signed(Raise("KalshiClientError", "Unable to read API key file"), cached, 0)
    ELSE IF load_pem_private_key(file) = "none" THEN
        Signed(Raise("KalshiClientError", "Unable to load private key"), cached, 1)
    ELSE IF load_pem_private_key(file) # "rsa" THEN
        Signed(Raise("KalshiClientError", "Unable to sign Kalshi API request."), "none", 1)
    ELSE Signed(Return(sign(load_pem_private_key(file), message)), "none", 1)

\* _sign_message: the key is read and parsed when none is cached; a key that
\* is not an RSA key is cached and then refuses to sign with PSS
_sign_message(message, cached, api_key_path, file) ==
    LET then(key, reads) ==
            IF key # "rsa" THEN
                Signed(Raise("KalshiClientError", "Unable to sign Kalshi API request."),
                       key, reads)
            ELSE Signed(Return(sign(key, message)), key, reads)
    IN  IF cached # "none" THEN then(cached, 0)
        ELSE IF file = "missing" THEN
            Signed(Raise("KalshiClientError", "Unable to read API key file"), cached, 0)
        ELSE IF load_pem_private_key(file) = "none" THEN
            Signed(Raise("KalshiClientError", "Unable to load private key"), cached, 1)
        ELSE then(load_pem_private_key(file), 1)

AUTH_REQUIRED_TEXT ==
    "Authenticated Kalshi endpoint requires KALSHI_API_KEY_ID and KALSHI_API_KEY_PATH."

\* mutant: the credentials are not checked before signing
M_require_auth_headers_unchecked(method, path, now, config, cached, file) ==
    LET headers(signed) ==
            IF Raised(signed) THEN signed
            ELSE Signed(Return([KALSHI_ACCESS_KEY |-> config.api_key_id,
                                KALSHI_ACCESS_SIGNATURE |-> signed.return,
                                KALSHI_ACCESS_TIMESTAMP |-> now]),
                        signed.cached, signed.reads)
    IN  IF Unset(config.api_key_id) \/ Unset(config.api_key_path) THEN
            Signed(Return([KALSHI_ACCESS_KEY |-> config.api_key_id,
                           KALSHI_ACCESS_TIMESTAMP |-> now]), cached, 0)
        ELSE headers(_sign_message(<<now, upper(method)>>
                                   \o _path_for_signing(path, config.base_url),
                                   cached, config.api_key_path, file))

\* _require_auth_headers; `now` is str(int(time.time() * 1000))
_require_auth_headers(method, path, now, config, cached, file) ==
    LET headers(signed) ==
            IF Raised(signed) THEN signed
            ELSE Signed(Return([KALSHI_ACCESS_KEY |-> config.api_key_id,
                                KALSHI_ACCESS_SIGNATURE |-> signed.return,
                                KALSHI_ACCESS_TIMESTAMP |-> now]),
                        signed.cached, signed.reads)
    IN  IF Unset(config.api_key_id) \/ Unset(config.api_key_path) THEN
            Signed(Raise("KalshiClientError", AUTH_REQUIRED_TEXT), cached, 0)
        ELSE headers(_sign_message(<<now, upper(method)>>
                                   \o _path_for_signing(path, config.base_url),
                                   cached, config.api_key_path, file))

----------------------------------------------------------------------------
(* kalshi_client.py: _get_json and _post_json.  Durations are in            *)
(* milliseconds.                                                            *)

max_attempts == 4
BACKOFF_BASE_MS == 250
JITTER_MS == 250
HTTP_BACKOFF_CAP_MS == 5000
URL_BACKOFF_CAP_MS == 2000

Max(a, b) == IF b > a THEN b ELSE a
Min(a, b) == IF b < a THEN b ELSE a

\* mutant: every HTTP error status is retried
M_retriable_any_status(code) == TRUE

\* `exc.code in (429, 500, 502, 503, 504)`
retriable(code) == code \in {429, 500, 502, 503, 504}

\* float(text) of a Retry-After header: seconds as milliseconds, not-a-number,
\* or ValueError for text that is no number (an HTTP date)
float(text) ==
    CASE text = "1" -> [kind |-> "finite", ms |-> 1000]
      [] text = "7" -> [kind |-> "finite", ms |-> 7000]
      [] text = "nan" -> [kind |-> "nan"]
      [] OTHER -> [kind |-> "ValueError"]

\* mutant: the Retry-After header is not looked at
M_http_backoff_ignores_retry_after(n, jitter, retry_after) ==
    Min(BACKOFF_BASE_MS * 2^(n - 1) + jitter, HTTP_BACKOFF_CAP_MS)

\* _get_json, lines 1187-1199: the wait after the n-th failure, an HTTP error
\* whose Retry-After header is retry_after
http_backoff(n, jitter, retry_after) ==
    LET backoff == BACKOFF_BASE_MS * 2^(n - 1) + jitter
        max(f) == IF f.kind = "finite" THEN Max(backoff, f.ms) ELSE backoff
    IN  Min(IF retry_after # None /\ retry_after # Str("")
            THEN max(float(retry_after.s)) ELSE backoff,
            HTTP_BACKOFF_CAP_MS)

\* mutant: the wait after a connection failure does not grow
M_url_backoff_flat(n, jitter) == Min(BACKOFF_BASE_MS + jitter, URL_BACKOFF_CAP_MS)

\* _get_json, line 1216: the wait after the n-th failure, a URLError
url_backoff(n, jitter) == Min(BACKOFF_BASE_MS * 2^(n - 1) + jitter, URL_BACKOFF_CAP_MS)

NoWait == -1

\* What one iteration of the while loop leaves behind: whether the loop goes
\* on, the local attempts, the wait slept (NoWait when none) and the outcome.
Iteration(next, n, wait, o) == [next |-> next, attempts |-> n, wait |-> wait, outcome |-> o]

\* lines 1229-1237: the body of a response that was read
decode(body, url) ==
    CASE body = "object" -> Return([payload |-> "object"])
      [] body = "garbage" ->
            Raise("KalshiClientError", "Kalshi API response was not valid JSON for " \o url)
      [] OTHER ->
            Raise("KalshiClientError", "Kalshi API returned a non-object payload for " \o url)

\* mutant: a failure is retried as long as attempts <= max_attempts
M_get_json_attempt_one_more(response, n, jitter, url) ==
    CASE response.kind = "ok" ->
            IF response.body = "not_utf8" THEN
                Iteration("raise", n, NoWait,
                          Raise("UnicodeDecodeError", "'utf-8' codec can't decode byte"))
            ELSE Iteration("break", n, NoWait, decode(response.body, url))
      [] response.kind = "TimeoutError" ->
            Iteration("raise", n, NoWait, Raise("TimeoutError", "timed out"))
      [] response.kind = "HTTPError" ->
            IF retriable(response.code) /\ n + 1 <= max_attempts THEN
                Iteration("continue", n + 1,
                          http_backoff(n + 1, jitter, response.retry_after), Pending)
            ELSE Iteration("raise", n + 1, NoWait,
                           Raise("KalshiClientError",
                                 "Kalshi API HTTP " \o ToString(response.code) \o " for " \o url))
      [] response.kind = "URLError" ->
            IF n + 1 <= max_attempts THEN
                Iteration("continue", n + 1, url_backoff(n + 1, jitter), Pending)
            ELSE Iteration("raise", n + 1, NoWait,
                           Raise("KalshiClientError",
                                 "Kalshi API request failed for " \o url \o ": "
                                 \o response.reason))

\* _get_json, lines 1178-1237: one iteration of `while True` for what urlopen
\* got, with n failed attempts before it.  The try has two except clauses,
\* for HTTPError and for URLError; any other exception leaves _get_json.
_get_json_attempt(response, n, jitter, url) ==
    CASE response.kind = "ok" ->
            IF response.body = "not_utf8" THEN
                Iteration("raise", n, NoWait,
                          Raise("UnicodeDecodeError", "'utf-8' codec can't decode byte"))
            ELSE Iteration("break", n, NoWait, decode(response.body, url))
      [] response.kind = "TimeoutError" ->
            Iteration("raise", n, NoWait, Raise("TimeoutError", "timed out"))
      [] response.kind = "HTTPError" ->
            IF retriable(response.code) /\ n + 1 < max_attempts THEN
                Iteration("continue", n + 1,
                          http_backoff(n + 1, jitter, response.retry_after), Pending)
            ELSE Iteration("raise", n + 1, NoWait,
                           Raise("KalshiClientError",
                                 "Kalshi API HTTP " \o ToString(response.code) \o " for " \o url))
      [] response.kind = "URLError" ->
            IF n + 1 < max_attempts THEN
                Iteration("continue", n + 1, url_backoff(n + 1, jitter), Pending)
            ELSE Iteration("raise", n + 1, NoWait,
                           Raise("KalshiClientError",
                                 "Kalshi API request failed for " \o url \o ": "
                                 \o response.reason))

\* _post_json, lines 1263-1322: the same loop
_post_json_attempt(response, n, jitter, url) == _get_json_attempt(response, n, jitter, url)

\* mutant: the request is stamped anew for each attempt
M_urlopen_headers_stamped_anew(request) ==
    IF "KALSHI_ACCESS_TIMESTAMP" \in DOMAIN request.headers
    THEN [request.headers EXCEPT !["KALSHI_ACCESS_TIMESTAMP"] = "now"]
    ELSE request.headers

\* request.urlopen(req, ...): the headers that go out are those req was built
\* with before the loop
urlopen_headers(request) == request.headers

----------------------------------------------------------------------------
(* Bounds and input domains of the client *)

MaxCalls == 2

HOST == <<"https", ":", "/", "/", "host">>

BaseUrls ==
    {HOST, HOST \o <<"/">>, HOST \o <<"/", "trade-api", "/", "v2">>,
     HOST \o <<"/", "trade-api", "/", "v2", "/">>}

KeyFiles == {"rsa_pem", "ec_pem", "not_pem", "missing"}

Settings(base_url, api_key_id, api_key_path) ==
    [base_url |-> base_url, api_key_id |-> api_key_id, api_key_path |-> api_key_path]

DefaultSettings ==
    Settings(HOST \o <<"/", "trade-api", "/", "v2">>, Str("key-id"), Str("/keys/kalshi.pem"))

\* the clients that are constructed: every base URL and every key file with
\* both credentials, and every way of leaving a credential unset
Configurations ==
    {<<Settings(b, Str("key-id"), Str("/keys/kalshi.pem")), f>> : b \in BaseUrls, f \in KeyFiles}
    \cup {<<Settings(DefaultSettings.base_url, id, path), "rsa_pem">> :
             id \in {None, Str(""), Str("key-id")},
             path \in {None, Str(""), Str("/keys/kalshi.pem")}}

\* the HTTP calls the public methods of KalshiClient make
ClientCalls ==
    {[method |-> "GET", path |-> <<"/", "search", "/", "tags_by_categories">>,
      authenticated |-> FALSE],
     [method |-> "GET", path |-> <<"/", "portfolio", "/", "balance">>,
      authenticated |-> TRUE],
     [method |-> "GET", path |-> <<"/", "portfolio", "/", "orders", "?", "limit=5">>,
      authenticated |-> TRUE],
     [method |-> "POST", path |-> <<"/", "portfolio", "/", "subaccounts">>,
      authenticated |-> TRUE]}

\* str(int(time.time() * 1000))
Clock == {"1700000000123", "1735000000000"}

\* random.uniform(0, 0.25)
Jitters == {0, JITTER_MS - 1}

RetryAfterValues ==
    {None, Str(""), Str("1"), Str("7"), Str("nan"), Str("Wed, 21 Oct 2026 07:28:00 GMT")}

\* what urlopen and response.read().decode("utf-8") give: a body, an
\* HTTPError, a URLError (the request could not be sent: no connection, a
\* timeout while connecting), or the TimeoutError a socket raises when the
\* response or its body does not arrive in time, which urllib hands on as it
\* is; the body "not_utf8" is one that decode("utf-8") rejects
Responses ==
    {[kind |-> "ok", body |-> b] : b \in {"object", "array", "garbage", "not_utf8"}}
    \cup {[kind |-> "TimeoutError"]}
    \cup {[kind |-> "HTTPError", code |-> c, retry_after |-> ra] :
             c \in {429, 503}, ra \in RetryAfterValues}
    \cup {[kind |-> "HTTPError", code |-> c, retry_after |-> None] :
             c \in {400, 401, 404, 500, 501, 502, 504}}
    \cup {[kind |-> "URLError", reason |-> "timed out"]}

NoRequest ==
    [method |-> "", authenticated |-> FALSE, url |-> <<>>, path |-> <<>>, headers |-> EmptyDict]
NoResponse == [response |-> [kind |-> "none"], jitter |-> NoWait, wait |-> NoWait]

\* the client of a specification that makes no HTTP call
ClientAtRest ==
    /\ settings = DefaultSettings
    /\ key_file = "rsa_pem"
    /\ cached_private_key = "none"
    /\ cpc = "idle"
    /\ req = NoRequest
    /\ attempts = 0
    /\ urlopens = 0
    /\ sleeps = 0
    /\ failed = {}
    /\ last_try = NoResponse
    /\ outcome = Pending
    /\ key_reads = 0
    /\ ncalls = 0
    /\ signings = 0
    /\ sent = <<>>

----------------------------------------------------------------------------
(* Bounds and input domains of the paging tools *)

MaxPages == 3

ItemLists ==
    {<<>>, <<Str("X")>>, <<Str("Y"), Str("X")>>, <<Str("X"), Str("X")>>, <<Num(0), Str("Y")>>}

RawCursors == {None, Str(""), Str("a"), Str("b"), Num(7)}

Pages ==
    {[kind |-> "error"], [kind |-> "ok", items |-> None, cursor |-> None]}
    \cup {[kind |-> "ok", items |-> List(items), cursor |-> c] :
              items \in ItemLists, c \in RawCursors}

MaxPagesValues ==
    {None, Bool(TRUE), Str("2"), Num(0), Num(10001)} \cup {Num(n) : n \in 1..MaxPages}
LimitValues == {None, Bool(TRUE), Str("50"), Num(0), Num(50), Num(1000), Num(1001)}

PagingArguments ==
    {None}
    \cup Cross(Cross(Key("series_ticker", {Str(" KXFED "), Str(" ")}) \cup
                     Cross(Key("category", {Str("Politics")}), Opt("tags", {Str("Fed"), Num(7)})),
                     Opt("limit", LimitValues)),
               Opt("max_pages", MaxPagesValues))

NoRun == [tool |-> "", arguments |-> None, args |-> None]

\* the paging tools of a specification that runs none
PageAtRest ==
    /\ ppc = "idle"
    /\ run = NoRun
    /\ locals = StartLocals
    /\ fetches = <<>>
    /\ page_outcome = Pending

----------------------------------------------------------------------------
(* The server process *)

\* the message is a notifications/initialized notification
IsInitializedNotification(m) ==
    /\ IsDict(m)
    /\ Get(m, "jsonrpc") = JSONRPC_VERSION
    /\ Get(m, "method") = Str("notifications/initialized")
    /\ "id" \notin DOMAIN m

\* the messages a line carries: itself, or the items of a batch
MessagesOf(raw) ==
    IF raw.raw # "json" THEN <<>>
    ELSE IF IsList(raw.value) THEN raw.value.items
    ELSE <<raw.value>>

\* the line answers an initialize request with a result
AnswersInitialize(raw, written) ==
    /\ \E i \in 1..Len(MessagesOf(raw)) :
          LET m == MessagesOf(raw)[i]
          IN  IsDict(m) /\ Get(m, "method") = Str("initialize")
    /\ \E i \in 1..Len(written) :
          LET w == written[i]
              rs == IF IsList(w) THEN w.items ELSE <<w>>
          IN  \E j \in 1..Len(rs) :
                 "result" \in DOMAIN rs[j] /\ IsDict(rs[j].result)
                 /\ "serverInfo" \in DOMAIN rs[j].result

NoLine == [raw |-> "blank"]

\* the server of a specification that reads no line
ServerAtRest ==
    /\ initialized = FALSE
    /\ resources = FALSE
    /\ pc = "read"
    /\ line = NoLine
    /\ stdout = <<>>
    /\ calls = <<>>
    /\ upstream = "ok"
    /\ handshake = "none"

\* StdioMCPServer.__init__, with or without a resource registry
Init ==
    /\ initialized = FALSE
    /\ resources \in BOOLEAN
    /\ pc = "read"
    /\ line = NoLine
    /\ stdout = <<>>
    /\ calls = <<>>
    /\ upstream = "ok"
    /\ handshake = "none"
    /\ ClientAtRest
    /\ PageAtRest

\* run: `for raw_line in self._stdin` yields the next line
ReadLine ==
    /\ pc = "read"
    /\ \E raw \in Lines : line' = raw
    /\ pc' = "handle"
    /\ UNCHANGED <<initialized, resources, stdout, calls, upstream, handshake>>
    /\ UNCHANGED <<client_vars, page_vars>>

\* run: the body of the loop for the line read, whatever the upstream does
HandleLine ==
    /\ pc = "handle"
    /\ \E u \in Upstream :
          \E done \in {run_body(line, initialized, u)} :
              /\ initialized' = done.initialized
              /\ stdout' = done.written
              /\ calls' = done.calls
              /\ upstream' = u
              /\ pc' = IF done.loop = "continue" THEN "next" ELSE "exit"
              /\ handshake' =
                    IF handshake = "notified"
                       \/ \E i \in 1..Len(MessagesOf(line)) :
                             IsInitializedNotification(MessagesOf(line)[i])
                    THEN "notified"
                    ELSE IF AnswersInitialize(line, done.written) THEN "initialize_answered"
                    ELSE handshake
    /\ UNCHANGED <<resources, line>>
    /\ UNCHANGED <<client_vars, page_vars>>

\* run: the loop goes back to its head; what was observed of the finished
\* iteration is dropped
NextLine ==
    /\ pc = "next"
    /\ pc' = "read"
    /\ line' = NoLine
    /\ stdout' = <<>>
    /\ calls' = <<>>
    /\ upstream' = "ok"
    /\ UNCHANGED <<initialized, resources, handshake>>
    /\ UNCHANGED <<client_vars, page_vars>>

\* run: stdin is exhausted, run returns 0
EndOfInput ==
    /\ pc = "read"
    /\ pc' = "exit"
    /\ UNCHANGED <<initialized, resources, line, stdout, calls, upstream, handshake>>
    /\ UNCHANGED <<client_vars, page_vars>>

Next == ReadLine \/ HandleLine \/ NextLine \/ EndOfInput

Spec == Init /\ [][Next]_vars

----------------------------------------------------------------------------
(* The client process: HTTP calls on one KalshiClient *)

\* KalshiClient.__init__ on the settings of a configuration
ClientInit ==
    /\ \E c \in Configurations : settings = c[1] /\ key_file = c[2]
    /\ cached_private_key = "none"
    /\ cpc = "idle"
    /\ req = NoRequest
    /\ attempts = 0
    /\ urlopens = 0
    /\ sleeps = 0
    /\ failed = {}
    /\ last_try = NoResponse
    /\ outcome = Pending
    /\ key_reads = 0
    /\ ncalls = 0
    /\ signings = 0
    /\ sent = <<>>
    /\ ServerAtRest
    /\ PageAtRest

\* _get_json / _post_json up to the loop: the headers, signed when the call
\* is authenticated, and the Request
StartCall ==
    /\ cpc = "idle"
    /\ ncalls < MaxCalls
    /\ \E call \in ClientCalls, now \in Clock :
          \E headers \in {IF call.authenticated
                          THEN _require_auth_headers(call.method, call.path, now, settings,
                                                     cached_private_key, key_file)
                          ELSE Signed(Return(EmptyDict), cached_private_key, 0)} :
              /\ cached_private_key' = headers.cached
              /\ key_reads' = key_reads + headers.reads
              /\ signings' = IF call.authenticated THEN 1 ELSE 0
              /\ IF Raised(headers) THEN
                     /\ cpc' = "done"
                     /\ req' = [NoRequest EXCEPT !.method = call.method,
                                                 !.authenticated = call.authenticated]
                     /\ outcome' = Raise(headers.raise, headers.text)
                 ELSE
                     /\ cpc' = "attempt"
                     /\ req' = [method |-> call.method,
                                authenticated |-> call.authenticated,
                                url |-> settings.base_url \o call.path,
                                path |-> call.path,
                                headers |-> [Accept |-> "application/json"] @@ headers.return]
                     /\ outcome' = Pending
    /\ attempts' = 0
    /\ urlopens' = 0
    /\ sleeps' = 0
    /\ failed' = {}
    /\ last_try' = NoResponse
    /\ ncalls' = ncalls + 1
    /\ sent' = <<>>
    /\ UNCHANGED <<settings, key_file>>
    /\ UNCHANGED <<server_vars, page_vars>>

\* one iteration of `while True`: urlopen, and the sleep when it is retried
Attempt ==
    /\ cpc = "attempt"
    /\ \E response \in Responses, jitter \in Jitters :
          \E it \in {IF req.method = "POST"
                     THEN _post_json_attempt(response, attempts, jitter, Text(req.url))
                     ELSE _get_json_attempt(response, attempts, jitter, Text(req.url))} :
              /\ attempts' = it.attempts
              /\ urlopens' = urlopens + 1
              /\ sleeps' = IF it.wait # NoWait THEN sleeps + 1 ELSE sleeps
              /\ failed' = IF response.kind = "ok" THEN failed
                           ELSE failed \cup {response.kind}
              /\ last_try' = [response |-> response,
                          jitter |-> IF it.wait # NoWait THEN jitter ELSE NoWait,
                          wait |-> it.wait]
              /\ outcome' = it.outcome
              /\ cpc' = IF it.next = "continue" THEN "attempt" ELSE "done"
    /\ sent' = Append(sent, urlopen_headers(req))
    /\ UNCHANGED <<settings, key_file, cached_private_key, req, key_reads, ncalls, signings>>
    /\ UNCHANGED <<server_vars, page_vars>>

\* the call has returned or raised; what was observed of it is dropped
EndCall ==
    /\ cpc = "done"
    /\ cpc' = "idle"
    /\ req' = NoRequest
    /\ attempts' = 0
    /\ urlopens' = 0
    /\ sleeps' = 0
    /\ failed' = {}
    /\ last_try' = NoResponse
    /\ outcome' = Pending
    /\ signings' = 0
    /\ sent' = <<>>
    /\ UNCHANGED <<settings, key_file, cached_private_key, key_reads, ncalls>>
    /\ UNCHANGED <<server_vars, page_vars>>

ClientNext == StartCall \/ Attempt \/ EndCall

ClientSpec == ClientInit /\ [][ClientNext]_vars

----------------------------------------------------------------------------
(* The paging process: calls of the paging tools *)

PageInit ==
    /\ PageAtRest
    /\ ServerAtRest
    /\ ClientAtRest

\* a paging handler up to the call of its paginator
StartRun ==
    /\ ppc = "idle"
    /\ \E tool_name \in PagingTools, arguments \in PagingArguments :
          \E parsed \in {paging_arguments(tool_name, arguments)} :
              /\ run' = [tool |-> tool_name, arguments |-> arguments,
                         args |-> IF Raised(parsed) THEN None ELSE parsed.return]
              /\ ppc' = IF Raised(parsed) THEN "done" ELSE "loop"
              /\ page_outcome' = IF Raised(parsed) THEN parsed ELSE Pending
    /\ locals' = StartLocals
    /\ fetches' = <<>>
    /\ UNCHANGED <<server_vars, client_vars>>

\* one iteration of `while True`, whatever the upstream answers when asked
PageStep ==
    /\ ppc = "loop"
    /\ \E page \in Pages :
          \E t \in {paging_turn(run.tool, run.args, locals, page)} :
              /\ locals' = t.locals
              /\ fetches' = IF t.fetched
                            THEN Append(fetches, [cursor |-> locals.cursor,
                                                  limit |-> run.args.limit, page |-> page])
                            ELSE fetches
              /\ page_outcome' = t.outcome
              /\ ppc' = IF t.next = "continue" THEN "loop" ELSE "done"
    /\ UNCHANGED run
    /\ UNCHANGED <<server_vars, client_vars>>

\* the handler has returned or raised; what was observed of it is dropped
EndRun ==
    /\ ppc = "done"
    /\ ppc' = "idle"
    /\ run' = NoRun
    /\ locals' = StartLocals
    /\ fetches' = <<>>
    /\ page_outcome' = Pending
    /\ UNCHANGED <<server_vars, client_vars>>

PageNext == StartRun \/ PageStep \/ EndRun

PageSpec == PageInit /\ [][PageNext]_vars

\* the paging process when each fetch returns: a loop that can take its next
\* turn does take it
PageFairSpec == PageSpec /\ WF_vars(PageStep)

----------------------------------------------------------------------------
(* Vocabulary of the properties *)

\* run has finished the body of the loop for `line`
LineDone == pc \in {"next", "exit"} /\ line.raw # "blank"

\* a well-formed request: jsonrpc "2.0", a string method, a non-null id
IsRequest(m) ==
    /\ IsDict(m)
    /\ Get(m, "jsonrpc") = JSONRPC_VERSION
    /\ IsStr(Get(m, "method"))
    /\ "id" \in DOMAIN m
    /\ m.id # None

\* a notification: jsonrpc "2.0", a string method, no id key
IsNotification(m) ==
    /\ IsDict(m)
    /\ Get(m, "jsonrpc") = JSONRPC_VERSION
    /\ IsStr(Get(m, "method"))
    /\ "id" \notin DOMAIN m

\* the line is one message (not a batch) that is a request for `method`
SingleRequestFor(methods) ==
    /\ LineDone
    /\ line.raw = "json"
    /\ IsRequest(line.value)
    /\ line.value.method.s \in methods

IsResultResponse(r) == IsDict(r) /\ "result" \in DOMAIN r /\ "error" \notin DOMAIN r
IsErrorResponse(r) == IsDict(r) /\ "error" \in DOMAIN r /\ "result" \notin DOMAIN r
ErrorCode(r) == r.error.code.n

\* params of a tools/call request that pass the envelope check
WellFormedToolCall(params) ==
    /\ IsDict(params)
    /\ IsStr(Get(params, "name"))
    /\ Get(params, "name").s # ""
    /\ (Get(params, "arguments") = None \/ IsDict(Get(params, "arguments")))

\* params of a resources/read request that pass the envelope check
WellFormedRead(params) ==
    /\ IsDict(params)
    /\ IsStr(Get(params, "uri"))
    /\ Get(params, "uri").s # ""

----------------------------------------------------------------------------
(* C1 *)

\* C1: a single message that is an object with jsonrpc "2.0", a string method
\* and a non-null id gets exactly one output line, a response (result or
\* error, not both) whose id is the request's id, in every session state and
\* for every method and params.
C1_OneResponsePerRequest ==
    (LineDone /\ line.raw = "json" /\ IsRequest(line.value)) =>
        /\ Len(stdout) = 1
        /\ IsResultResponse(stdout[1]) \/ IsErrorResponse(stdout[1])
        /\ stdout[1].jsonrpc = JSONRPC_VERSION
        /\ stdout[1].id = line.value.id

C1_Witness ==
    /\ SingleRequestFor({"tools/call"})
    /\ initialized
    /\ Len(stdout) = 1
    /\ IsResultResponse(stdout[1])
    /\ stdout[1].id = Str("a")
    /\ stdout[1].result.isError = Bool(FALSE)

----------------------------------------------------------------------------
(* C2 *)

AllNotifications(items) ==
    items # <<>> /\ \A i \in 1..Len(items) : IsNotification(items[i])

\* C2: a notification, whatever its method and params, writes nothing and the
\* read loop goes on; so does a (non-empty) batch of notifications only.
C2_NotificationsAreSilent ==
    (/\ LineDone
     /\ line.raw = "json"
     /\ \/ IsNotification(line.value)
        \/ IsList(line.value) /\ AllNotifications(line.value.items))
    => (stdout = <<>> /\ pc = "next")

C2_Witness ==
    /\ LineDone
    /\ line.raw = "json"
    /\ IsList(line.value)
    /\ Len(line.value.items) = 2
    /\ AllNotifications(line.value.items)
    /\ stdout = <<>>

----------------------------------------------------------------------------
(* C3 *)

\* C3: the initialized flag is false at creation, is true exactly when a
\* notifications/initialized notification has been processed, and stays true
\* whatever is received afterwards.
C3_InitializedIffNotified == initialized <=> (handshake = "notified")

C3_Witness ==
    /\ SingleRequestFor({"initialize"})
    /\ IsResultResponse(stdout[1])
    /\ initialized

----------------------------------------------------------------------------
(* C4 *)

\* C4: a resources/read request received before notifications/initialized is
\* answered with a JSON-RPC error, also after initialize requests succeeded:
\* answering initialize leaves the flag false.
C4_ReadBeforeInitializedFails ==
    /\ (handshake = "initialize_answered") => ~initialized
    /\ (SingleRequestFor({"resources/read"}) /\ handshake # "notified") =>
           (Len(stdout) = 1 /\ IsErrorResponse(stdout[1]))

C4_Witness ==
    /\ SingleRequestFor({"resources/read"})
    /\ handshake = "initialize_answered"
    /\ resources
    /\ WellFormedRead(Get(line.value, "params"))
    /\ IsErrorResponse(stdout[1])

----------------------------------------------------------------------------
(* C5 *)

GatedMethods == {"tools/call", "resources/list", "resources/read", "resources/templates/list"}

\* C5: while the flag is false no request invokes a tool handler, the tool
\* registry's call_tool or the resource registry, alone or inside a batch;
\* a single tools/call or resources request then fails with an error or an
\* error result.
C5_NoCollaboratorBeforeInitialized ==
    /\ \A i \in 1..Len(calls) :
          calls[i].callee # "ToolRegistry.list_tools" => calls[i].initialized
    /\ (SingleRequestFor(GatedMethods) /\ ~initialized) =>
          /\ calls = <<>>
          /\ Len(stdout) = 1
          /\ \/ IsErrorResponse(stdout[1])
             \/ IsResultResponse(stdout[1]) /\ stdout[1].result.isError = Bool(TRUE)

C5_Witness ==
    /\ LineDone
    /\ line.raw = "json"
    /\ IsList(line.value)
    /\ Len(line.value.items) = 2
    /\ \A i \in 1..2 :
          /\ IsRequest(line.value.items[i])
          /\ line.value.items[i].method.s \in {"tools/call", "resources/read"}
    /\ resources
    /\ ~initialized
    /\ calls = <<>>

----------------------------------------------------------------------------
(* C6 *)

\* C6: a well-formed tools/call received while the session is not
\* initialized gets a success envelope whose result has isError true and one
\* text item saying that the server is not initialized, never an error object.
C6_ToolCallBeforeInitialized ==
    (/\ SingleRequestFor({"tools/call"})
     /\ WellFormedToolCall(Get(line.value, "params"))
     /\ ~initialized)
    => /\ Len(stdout) = 1
       /\ IsResultResponse(stdout[1])
       /\ stdout[1].result.isError = Bool(TRUE)
       /\ stdout[1].result.content =
              <<[type |-> Str("text"), text |-> Str(NOT_INITIALIZED_TEXT)]>>

C6_Witness ==
    /\ SingleRequestFor({"tools/call"})
    /\ WellFormedToolCall(Get(line.value, "params"))
    /\ handshake = "initialize_answered"
    /\ ~initialized
    /\ IsResultResponse(stdout[1])

----------------------------------------------------------------------------
(* C7 *)

\* the tools/call result the claim expects for registry outcome o
C7_Expected(result, o) ==
    IF Raised(o) THEN
        /\ result.isError = Bool(TRUE)
        /\ result.content = <<[type |-> Str("text"), text |-> Str(o.text)]>>
        /\ "structuredContent" \notin DOMAIN result
    ELSE
        /\ result.isError = Bool(FALSE)
        /\ "structuredContent" \in DOMAIN result
        /\ result.structuredContent = o.return

\* C7: for an initialized session and a well-formed tools/call the response
\* is a success envelope: isError true with the exception text when the
\* lookup fails or the handler raises, isError false with structuredContent
\* equal to the handler's return value exactly when the handler returns.
C7_ToolCallAfterInitialized ==
    (/\ SingleRequestFor({"tools/call"})
     /\ WellFormedToolCall(Get(line.value, "params"))
     /\ initialized)
    => /\ Len(stdout) = 1
       /\ IsResultResponse(stdout[1])
       /\ C7_Expected(stdout[1].result,
                      ToolRegistry_call_tool(line.value.params.name.s,
                                             Get(line.value.params, "arguments"),
                                             upstream))

C7_Witness ==
    /\ SingleRequestFor({"tools/call"})
    /\ WellFormedToolCall(Get(line.value, "params"))
    /\ initialized
    /\ line.value.params.name = Str("get_categories")
    /\ upstream = "http_error"
    /\ IsResultResponse(stdout[1])
    /\ stdout[1].result.isError = Bool(TRUE)

----------------------------------------------------------------------------
(* C8 *)

\* a tool/domain error was raised while the request of the line was served:
\* by the registry for tools/call, by the resource registry for resources/read
C8_ToolCallRaised ==
    /\ SingleRequestFor({"tools/call"})
    /\ WellFormedToolCall(Get(line.value, "params"))
    /\ initialized
    /\ Raised(ToolRegistry_call_tool(line.value.params.name.s,
                                     Get(line.value.params, "arguments"), upstream))

C8_ReadRaised ==
    /\ SingleRequestFor({"resources/read"})
    /\ WellFormedRead(Get(line.value, "params"))
    /\ resources
    /\ initialized
    /\ Raised(ResourceRegistry_read_resource(line.value.params.uri, upstream))

C8_IsErrorResult(r) ==
    /\ IsResultResponse(r)
    /\ Get(r.result, "isError") = Bool(TRUE)

\* C8 as claimed: every tool/domain error raised while serving a request is
\* reported as a success envelope with isError true, never as an error
\* object, through tools/call and through resources/read alike.
C8_Original ==
    (C8_ToolCallRaised \/ C8_ReadRaised) =>
        (Len(stdout) = 1 /\ C8_IsErrorResult(stdout[1]))

\* the error object the except clauses make of a raised outcome
C8_ErrorObjectFor(r, o) ==
    /\ IsErrorResponse(r)
    /\ IF o.raise = "ValueError"
       THEN ErrorCode(r) = -32602 /\ r.error.message = Str(o.text)
       ELSE ErrorCode(r) = -32603 /\ Get(r.error, "data") = [detail |-> Str(o.text)]

\* C8 (amended): a tool/domain error raised while serving tools/call is
\* reported as a success envelope with isError true and the error text; the
\* same error raised while serving resources/read, an unrecognized URI or
\* scheme included, is reported as a JSON-RPC error object: -32602 with the
\* error text for a ValueError, -32603 with data.detail otherwise.
C8_ErrorChannels ==
    /\ C8_ToolCallRaised =>
          /\ Len(stdout) = 1
          /\ C8_IsErrorResult(stdout[1])
          /\ stdout[1].result.content[1].text =
                 Str(ToolRegistry_call_tool(line.value.params.name.s,
                                            Get(line.value.params, "arguments"),
                                            upstream).text)
    /\ C8_ReadRaised =>
          /\ Len(stdout) = 1
          /\ C8_ErrorObjectFor(stdout[1],
                               ResourceRegistry_read_resource(line.value.params.uri, upstream))

C8_Witness ==
    /\ C8_ReadRaised
    /\ line.value.params.uri = Str("https://example.com/categories")
    /\ ErrorCode(stdout[1]) = -32602

----------------------------------------------------------------------------
(* C9 *)

\* C9: a non-blank line that is not JSON gets exactly one response, the error
\* -32700 with id null; the loop goes on and the session is as it was, so the
\* lines that follow are handled as they would have been without it.
C9_ParseErrorStep ==
    (pc = "handle" /\ line.raw = "garbage") =>
        /\ pc' = "next"
        /\ initialized' = initialized
        /\ Len(stdout') = 1
        /\ IsErrorResponse(stdout'[1])
        /\ ErrorCode(stdout'[1]) = -32700
        /\ stdout'[1].id = None
        /\ calls' = <<>>

C9_ParseErrorKeepsLoop == [][C9_ParseErrorStep]_vars

C9_Witness ==
    /\ pc = "next"
    /\ line.raw = "garbage"
    /\ initialized
    /\ Len(stdout) = 1

----------------------------------------------------------------------------
(* C10 *)

\* the session flag an item of a batch finds: the flag before the batch, or
\* true once an earlier item was a notifications/initialized notification
C10_FlagAt(items, i, init) ==
    init \/ \E j \in 1..(i - 1) : IsInitializedNotification(items[j])

\* the responses of the items, each handled by the single-message path
C10_Responses(items, init, u) ==
    [i \in 1..Len(items) |->
        _handle_one_message(items[i], C10_FlagAt(items, i, init), u).response]

\* what a batch must write: nothing, or one array of the non-null responses
C10_Expected(items, init, u) ==
    IF items = <<>> THEN <<_error_response(None, -32600, "Invalid Request", None)>>
    ELSE LET line_of(responses) ==
                 IF responses = <<>> THEN <<>> ELSE <<List(responses)>>
         IN  line_of(SelectSeq(C10_Responses(items, init, u), LAMBDA r : r # None))

C10_BatchStep ==
    (pc = "handle" /\ line.raw = "json" /\ IsList(line.value)) =>
        stdout' = C10_Expected(line.value.items, initialized, upstream')

\* C10: an empty array gets one error -32600 with id null; a non-empty array
\* gets at most one output line, the array of the non-null responses of its
\* elements in element order, each element handled by the single-message
\* path whatever the others' outcome; nothing is written when there is none.
C10_BatchResponses == [][C10_BatchStep]_vars

C10_Witness ==
    /\ LineDone
    /\ line.raw = "json"
    /\ IsList(line.value)
    /\ Len(line.value.items) = 2
    /\ ~IsDict(line.value.items[1])
    /\ IsRequest(line.value.items[2])
    /\ Len(stdout) = 1
    /\ IsList(stdout[1])
    /\ Len(stdout[1].items) = 2
    /\ IsErrorResponse(stdout[1].items[1])
    /\ IsResultResponse(stdout[1].items[2])

----------------------------------------------------------------------------
(* C11 *)

\* the responses a payload written to stdout carries
C11_ResponsesOf(payloads) ==
    IF payloads = <<>> THEN <<>>
    ELSE IF IsList(payloads[1]) THEN payloads[1].items
    ELSE <<payloads[1]>>

\* items without its i-th element
C11_Without(items, i) ==
    [j \in 1..(Len(items) - 1) |-> IF j < i THEN items[j] ELSE items[j + 1]]

\* the place of item i's response among the responses of its batch
C11_ResponseIndex(items, i, init, u) ==
    Cardinality({j \in 1..i : C10_Responses(items, init, u)[j] # None})

\* item i of a batch produced an error and the session is as if it had not
\* been sent: the flag it leaves is the flag it found, and the batch without
\* it leaves the same flag and gets the same responses but for the error
C11_ItemLeavesNoTrace(items, i, init, u) ==
    LET same(h, with, without) ==
            IsErrorResponse(h.response) =>
                /\ h.initialized = C10_FlagAt(items, i, init)
                /\ Len(items) > 1 =>
                      /\ without.initialized = with.initialized
                      /\ C11_ResponsesOf(without.written) =
                             C11_Without(C11_ResponsesOf(with.written),
                                         C11_ResponseIndex(items, i, init, u))
    IN  same(_handle_one_message(items[i], C10_FlagAt(items, i, init), u),
             _handle_incoming(List(items), init, u),
             _handle_incoming(List(C11_Without(items, i)), init, u))

C11_ErrorStep ==
    /\ (/\ pc = "handle"
        /\ line.raw = "garbage" \/ (line.raw = "json" /\ ~IsList(line.value))
        /\ Len(stdout') = 1
        /\ IsErrorResponse(stdout'[1]))
       => /\ initialized' = initialized
          /\ resources' = resources
          /\ handshake' = handshake
          /\ pc' = "next"
    /\ (pc = "handle" /\ line.raw = "json" /\ IsList(line.value)) =>
          \A i \in 1..Len(line.value.items) :
              C11_ItemLeavesNoTrace(line.value.items, i, initialized, upstream')

\* C11: a message answered with a protocol error (parse error, invalid
\* request, method not found, invalid params, uninitialized access to a
\* resources method) leaves the session as it found it: the initialized flag
\* is unchanged, the loop goes on, and the messages after it (the later lines,
\* the other items of its batch) are answered as without it.
C11_ErrorsLeaveSessionUsable == [][C11_ErrorStep]_vars

C11_Witness ==
    /\ SingleRequestFor({"no/such/method"})
    /\ initialized
    /\ pc = "next"
    /\ IsErrorResponse(stdout[1])
    /\ ErrorCode(stdout[1]) = -32601

----------------------------------------------------------------------------
(* C12 *)

C12_Codes == {-32700, -32600, -32601, -32602, -32603}

C12_HasDetail(r) ==
    /\ "data" \in DOMAIN r.error
    /\ IsDict(r.error.data)
    /\ "detail" \in DOMAIN r.error.data
    /\ IsStr(r.error.data.detail)

\* C12 as claimed: every error response written has one of the five codes,
\* and every one with code -32603 carries data with a string detail.
C12_Original ==
    \A i \in 1..Len(C11_ResponsesOf(stdout)) :
        LET r == C11_ResponsesOf(stdout)[i]
        IN  IsErrorResponse(r) =>
                /\ ErrorCode(r) \in C12_Codes
                /\ ErrorCode(r) = -32603 => C12_HasDetail(r)

\* C12 (amended): every error response written has one of the five codes;
\* one with code -32603 is either the internal error, which carries data with
\* a string detail, or the not-initialized error of a resources method, which
\* has the not-initialized text as its message and carries no data.
C12_ErrorCodes ==
    \A i \in 1..Len(C11_ResponsesOf(stdout)) :
        LET r == C11_ResponsesOf(stdout)[i]
        IN  IsErrorResponse(r) =>
                /\ ErrorCode(r) \in C12_Codes
                /\ ErrorCode(r) = -32603 =>
                      \/ r.error.message = Str("Internal error") /\ C12_HasDetail(r)
                      \/ /\ r.error.message = Str(NOT_INITIALIZED_TEXT)
                         /\ "data" \notin DOMAIN r.error

C12_Witness ==
    /\ SingleRequestFor(ResourceMethods)
    /\ resources
    /\ ~initialized
    /\ IsErrorResponse(stdout[1])
    /\ ErrorCode(stdout[1]) = -32603
    /\ "data" \notin DOMAIN stdout[1].error

----------------------------------------------------------------------------
(* Vocabulary of the properties of the client *)

\* the statuses the specification lists as retriable
RetriableStatuses == {429, 500, 502, 503, 504}

\* the latest urlopen failed in a way that is retried while attempts remain
RetriableFailure ==
    \/ last_try.response.kind = "URLError"
    \/ last_try.response.kind = "HTTPError" /\ last_try.response.code \in RetriableStatuses

RaisedClientError == Raised(outcome) /\ outcome.raise = "KalshiClientError"

----------------------------------------------------------------------------
(* C13 *)

\* C13: one HTTP call makes at most 4 attempts, HTTP-status and connection
\* failures counted together: after k < 4 retriable failures and a success
\* it has made k + 1 attempts and returns; after 4 retriable failures it
\* raises KalshiClientError with exactly 4 attempts made; every failed
\* attempt but the last is followed by exactly one wait.
C13_AttemptBudget ==
    /\ urlopens <= 4
    /\ cpc = "attempt" => (urlopens = attempts /\ sleeps = urlopens /\ urlopens < 4)
    /\ (cpc = "done" /\ urlopens > 0) => sleeps = urlopens - 1
    /\ (cpc = "done" /\ last_try.response.kind = "ok") =>
          /\ urlopens = attempts + 1
          /\ last_try.response.body = "object" => ~Raised(outcome)
    /\ (cpc = "done" /\ RetriableFailure) =>
          /\ urlopens = 4
          /\ attempts = 4
          /\ sleeps = 3
          /\ RaisedClientError

C13_Witness ==
    /\ cpc = "done"
    /\ urlopens = 4
    /\ sleeps = 3
    /\ failed = {"HTTPError", "URLError"}
    /\ RetriableFailure
    /\ RaisedClientError

----------------------------------------------------------------------------
(* C14 *)

\* C14: an HTTP error status outside {429, 500, 502, 503, 504} ends the call
\* at the attempt where it occurs, first or later: KalshiClientError, no wait
\* and no further attempt; each of the five statuses is followed by a wait
\* and another attempt as long as fewer than 4 attempts have been made.
C14_TerminalStatuses ==
    last_try.response.kind = "HTTPError" =>
        IF last_try.response.code \in RetriableStatuses /\ urlopens < 4
        THEN cpc = "attempt" /\ last_try.wait # NoWait /\ outcome = Pending
        ELSE cpc = "done" /\ last_try.wait = NoWait /\ RaisedClientError

C14_Witness ==
    /\ cpc = "done"
    /\ last_try.response.kind = "HTTPError"
    /\ last_try.response.code = 404
    /\ urlopens = 3
    /\ sleeps = 2
    /\ RaisedClientError

----------------------------------------------------------------------------
(* C15 *)

\* C15: without a Retry-After header the wait before retry n (n failed
\* attempts so far, n = 1, 2, 3) is 250ms * 2^(n-1) plus a jitter in
\* [0, 250ms); every wait is at most 5s after an HTTP-status failure and at
\* most 2s after a connection failure.
C15_Backoff ==
    last_try.wait # NoWait =>
        /\ attempts \in 1..3
        /\ last_try.jitter >= 0 /\ last_try.jitter < 250
        /\ (\/ last_try.response.kind = "URLError"
            \/ last_try.response.retry_after = None)
           => last_try.wait = 250 * 2^(attempts - 1) + last_try.jitter
        /\ last_try.response.kind = "HTTPError" => last_try.wait <= 5000
        /\ last_try.response.kind = "URLError" => last_try.wait <= 2000

C15_Witness ==
    /\ cpc = "attempt"
    /\ attempts = 3
    /\ last_try.response.kind = "URLError"
    /\ last_try.wait = 1249
    /\ failed = {"HTTPError", "URLError"}

----------------------------------------------------------------------------
(* C16 *)

\* the seconds of a numeric Retry-After header, in milliseconds
C16_RetryAfterMs(retry_after) ==
    CASE retry_after = Str("1") -> 1000
      [] retry_after = Str("7") -> 7000

C16_NumericRetryAfter ==
    /\ last_try.wait # NoWait
    /\ last_try.response.kind = "HTTPError"
    /\ last_try.response.retry_after \in {Str("1"), Str("7")}

\* C16 as claimed: the wait after a retriable HTTP failure with a numeric
\* Retry-After header is max(computed backoff, retry_after), whatever the
\* value of the header.
C16_Original ==
    C16_NumericRetryAfter =>
        last_try.wait = Max(250 * 2^(attempts - 1) + last_try.jitter,
                            C16_RetryAfterMs(last_try.response.retry_after))

\* C16 (amended): the wait after a retriable HTTP failure with a numeric
\* Retry-After header is min(5s, max(computed backoff, retry_after)): a
\* header that asks for more than 5s is answered with a wait of 5s.
C16_RetryAfterCapped ==
    C16_NumericRetryAfter =>
        last_try.wait = Min(5000,
                            Max(250 * 2^(attempts - 1) + last_try.jitter,
                                C16_RetryAfterMs(last_try.response.retry_after)))

C16_Witness ==
    /\ C16_NumericRetryAfter
    /\ last_try.response.retry_after = Str("7")
    /\ last_try.response.code = 429
    /\ last_try.wait = 5000

----------------------------------------------------------------------------
(* C17 *)

\* C17: an authenticated call on a client whose key identifier or key file
\* path is unset raises KalshiClientError with no network attempt, no wait
\* and no read of the key file; the credential error is never raised once an
\* attempt has been made.
C17_CredentialsFailFast ==
    /\ (/\ cpc # "idle"
        /\ req.authenticated
        /\ Unset(settings.api_key_id) \/ Unset(settings.api_key_path))
       => /\ cpc = "done"
          /\ RaisedClientError
          /\ outcome.text = AUTH_REQUIRED_TEXT
          /\ urlopens = 0
          /\ sleeps = 0
          /\ key_reads = 0
    /\ (Raised(outcome) /\ outcome.text = AUTH_REQUIRED_TEXT) => urlopens = 0

C17_Witness ==
    /\ cpc = "done"
    /\ req.authenticated
    /\ req.method = "POST"
    /\ settings.api_key_id = Str("key-id")
    /\ settings.api_key_path = None
    /\ RaisedClientError
    /\ urlopens = 0

----------------------------------------------------------------------------
(* C18 *)

KEY_FAILURE_TEXTS == {"Unable to read API key file", "Unable to load private key"}

\* the request of the current call carries a signature
HasSignature == "KALSHI_ACCESS_SIGNATURE" \in DOMAIN req.headers

\* C18 as claimed: over any sequence of authenticated calls on one client the
\* key file is read from disk at most once.
C18_Original == key_reads <= 1

\* a failure to read or to parse the key file ends the call where it occurs;
\* a signature is made with a key that is then in the cache
C18_State ==
    /\ (Raised(outcome) /\ outcome.text \in KEY_FAILURE_TEXTS) =>
          /\ cpc = "done"
          /\ RaisedClientError
          /\ urlopens = 0
          /\ sleeps = 0
          /\ cached_private_key = "none"
    /\ HasSignature => cached_private_key # "none"
    /\ cached_private_key # "none" => key_reads >= 1

\* with a key in the cache the file is not read, and the cache keeps the key
C18_Step ==
    cached_private_key # "none" =>
        (key_reads' = key_reads /\ cached_private_key' = cached_private_key)

\* C18 (amended): the key file is read by an authenticated call only while no
\* key is cached; a key that was loaded is cached and reused by every later
\* call without another read; a read or parse failure is terminal for that
\* call (KalshiClientError, no network attempt, no retry) and caches nothing,
\* so the next authenticated call reads the file again.
C18_KeyCachedOnceLoaded == []C18_State /\ [][C18_Step]_vars

C18_Witness ==
    /\ ncalls = 2
    /\ key_reads = 1
    /\ cached_private_key = "rsa"
    /\ cpc = "attempt"
    /\ HasSignature

----------------------------------------------------------------------------
(* C19 *)

\* the path component of the base URLs, trailing slashes stripped
C19_BasePath ==
    IF settings.base_url \in {HOST, HOST \o <<"/">>} THEN "" ELSE "/trade-api/v2"

\* the paths of the calls, query string removed
C19_RequestPath ==
    CASE req.path = <<"/", "portfolio", "/", "balance">> -> "/portfolio/balance"
      [] req.path = <<"/", "portfolio", "/", "orders", "?", "limit=5">> -> "/portfolio/orders"
      [] req.path = <<"/", "portfolio", "/", "subaccounts">> -> "/portfolio/subaccounts"

\* C19: the signing input is the timestamp in ms, the upper-case HTTP method
\* and the signing path: the request path without its query string, after
\* the base URL's path component (trailing slashes stripped) when there is
\* one; "{ts}GET/trade-api/v2/portfolio/balance" for base URL
\* https://host/trade-api/v2, with or without a trailing slash.
C19_SigningInput ==
    HasSignature =>
        /\ Text(req.headers.KALSHI_ACCESS_SIGNATURE.message) =
              req.headers.KALSHI_ACCESS_TIMESTAMP \o req.method
              \o C19_BasePath \o C19_RequestPath
        /\ req.headers.KALSHI_ACCESS_TIMESTAMP \in Clock
        /\ (/\ Text(settings.base_url) \in {"https://host/trade-api/v2",
                                            "https://host/trade-api/v2/"}
            /\ req.method = "GET"
            /\ Text(req.path) = "/portfolio/balance"
            /\ req.headers.KALSHI_ACCESS_TIMESTAMP = "1700000000123")
           => Text(req.headers.KALSHI_ACCESS_SIGNATURE.message) =
                  "1700000000123GET/trade-api/v2/portfolio/balance"

C19_Witness ==
    /\ HasSignature
    /\ Text(settings.base_url) = "https://host/trade-api/v2/"
    /\ Text(req.path) = "/portfolio/orders?limit=5"
    /\ Text(req.headers.KALSHI_ACCESS_SIGNATURE.message) =
           "1735000000000GET/trade-api/v2/portfolio/orders"

----------------------------------------------------------------------------
(* C20 *)

C20_Scheme(signature) ==
    /\ signature.hash = "SHA256"
    /\ signature.padding = "PSS"
    /\ signature.mgf = "MGF1(SHA256)"
    /\ signature.encoding = "base64"

\* C20 as claimed: every signature is over the SHA-256 digest of the signing
\* input with PSS padding, MGF1 over SHA-256 and the maximum salt length, and
\* is base64-encoded.
C20_Original ==
    HasSignature =>
        /\ C20_Scheme(req.headers.KALSHI_ACCESS_SIGNATURE)
        /\ req.headers.KALSHI_ACCESS_SIGNATURE.salt_length = "MAX_LENGTH"

\* C20 (amended): every signature is over the SHA-256 digest of the signing
\* input with PSS padding, MGF1 over SHA-256 and a salt as long as the digest
\* (32 bytes, PSS.DIGEST_LENGTH), and is base64-encoded.
C20_SignatureScheme ==
    HasSignature =>
        /\ C20_Scheme(req.headers.KALSHI_ACCESS_SIGNATURE)
        /\ req.headers.KALSHI_ACCESS_SIGNATURE.salt_length = "DIGEST_LENGTH"
        /\ req.headers.KALSHI_ACCESS_SIGNATURE.key = "rsa"

C20_Witness ==
    /\ HasSignature
    /\ req.method = "POST"
    /\ cpc = "attempt"
    /\ req.headers.KALSHI_ACCESS_SIGNATURE.salt_length = "DIGEST_LENGTH"

----------------------------------------------------------------------------
(* Vocabulary of the properties of the paging tools *)

\* the i-th page fetched in the current run, and the cursor sent to get it
Fetched(i) == fetches[i].page
SentCursor(i) == fetches[i].cursor

\* the fetch gave a list of items
GoodPage(p) == p.kind = "ok" /\ IsList(p.items)
\* the page names a next page: a cursor that is a non-empty string
ProperCursor(c) == IsStr(c) /\ c # Str("")

RunStarted == ppc \in {"loop", "done"} /\ run.args # None
RunReturned == ppc = "done" /\ ~Raised(page_outcome) /\ page_outcome # Pending
RunRaised(exc) == ppc = "done" /\ Raised(page_outcome) /\ page_outcome.raise = exc

MarketsTool == run.tool \in {"get_open_markets_for_series", "get_open_market_titles_for_series"}

\* the well-formed items of the first n pages, in page order
RECURSIVE ItemsOfPages(_)
ItemsOfPages(n) ==
    IF n = 0 THEN <<>>
    ELSE ItemsOfPages(n - 1) \o SelectSeq(Fetched(n).items.items, LAMBDA raw : IsStr(raw))

----------------------------------------------------------------------------
(* C21 *)

\* the first n fetches gave lists of items, and the first n - 1 of them
\* pairwise distinct cursors
C21_DistinctCursors(n) ==
    /\ \A i \in 1..n : GoodPage(Fetched(i))
    /\ \A i \in 1..(n - 1) : ProperCursor(Fetched(i).cursor)
    /\ \A i, j \in 1..(n - 1) : i # j => Fetched(i).cursor # Fetched(j).cursor

\* C21: while the source returns pairwise distinct cursors and the fetches
\* stay within max_pages, the first fetch is made with cursor None and every
\* later one with the cursor of the page before it; the run goes on until a
\* page has no cursor, and then returns pages = the number of fetches and, for
\* the open-markets paginator, the items of all pages in page order.
C21_PagesInOrder ==
    RunStarted /\ fetches # <<>> =>
        LET n == Len(fetches)
        IN  n <= run.args.max_pages /\ C21_DistinctCursors(n) =>
                /\ SentCursor(1) = None
                /\ \A i \in 1..(n - 1) : SentCursor(i + 1) = Fetched(i).cursor
                /\ Fetched(n).cursor = None =>
                       /\ RunReturned
                       /\ page_outcome.return.pages = Num(n)
                       /\ MarketsTool =>
                              /\ page_outcome.return.markets =
                                     List([i \in 1..Len(ItemsOfPages(n)) |->
                                              [ticker |-> ItemsOfPages(n)[i]]])
                              /\ page_outcome.return.count = Num(Len(ItemsOfPages(n)))
                /\ ProperCursor(Fetched(n).cursor)
                   /\ (\A i \in 1..(n - 1) : Fetched(i).cursor # Fetched(n).cursor)
                   /\ n < run.args.max_pages
                   => ppc = "loop"

\* cursors "a", "b", None: three pages, each with items
C21_Witness ==
    /\ RunReturned
    /\ MarketsTool
    /\ Len(fetches) = 3
    /\ Fetched(1).cursor = Str("a")
    /\ Fetched(2).cursor = Str("b")
    /\ Fetched(3).cursor = None
    /\ \A i \in 1..3 : GoodPage(Fetched(i)) /\ Fetched(i).items.items # <<>>
    /\ page_outcome.return.pages = Num(3)

----------------------------------------------------------------------------
(* C22 *)

CURSOR_REPEATED_TEXTS ==
    {"Kalshi /markets cursor repeated; aborting pagination.",
     "Kalshi /series cursor repeated; aborting pagination."}

\* C22: a page whose next cursor equals the next cursor of an earlier page of
\* the run is the last page fetched, and the run raises the cursor-repeated
\* ValueError; no cursor other than None is sent to the upstream twice in a run.
C22_RepeatedCursorAborts ==
    RunStarted =>
        /\ \A i, j \in 1..Len(fetches) :
              /\ i < j
              /\ GoodPage(Fetched(i)) /\ GoodPage(Fetched(j))
              /\ ProperCursor(Fetched(j).cursor)
              /\ Fetched(i).cursor = Fetched(j).cursor
              => /\ j = Len(fetches)
                 /\ RunRaised("ValueError")
                 /\ page_outcome.text \in CURSOR_REPEATED_TEXTS
        /\ \A i, j \in 1..Len(fetches) :
              i # j /\ SentCursor(i) # None => SentCursor(i) # SentCursor(j)

\* cursors "a", "a": the run has raised after two fetches
C22_Witness ==
    /\ RunRaised("ValueError")
    /\ page_outcome.text \in CURSOR_REPEATED_TEXTS
    /\ Len(fetches) = 2
    /\ Fetched(1).cursor = Str("a")
    /\ Fetched(2).cursor = Str("a")
    /\ run.args.max_pages > 2

----------------------------------------------------------------------------
(* C23 *)

EXCEEDED_TEXTS ==
    {"Exceeded max_pages while paging /markets; reduce scope or increase max_pages.",
     "Exceeded max_pages while paging /series; reduce scope with tags or increase max_pages."}

\* in no state of a run are there more fetches than max_pages; a run that
\* raised the cap error made max_pages fetches, the last of which named a
\* next page; a run whose fetch number max_pages gave a page without a cursor
\* returned with pages = max_pages
C23_State ==
    RunStarted =>
        LET n == Len(fetches)
        IN  /\ n <= run.args.max_pages
            /\ RunRaised("ValueError") /\ page_outcome.text \in EXCEEDED_TEXTS =>
                   /\ n = run.args.max_pages
                   /\ GoodPage(Fetched(n)) /\ ProperCursor(Fetched(n).cursor)
            /\ n = run.args.max_pages /\ GoodPage(Fetched(n)) /\ Fetched(n).cursor = None =>
                   RunReturned /\ page_outcome.return.pages = Num(run.args.max_pages)

\* the loop entered with max_pages fetches made raises the cap error without
\* a fetch
C23_Step ==
    ppc = "loop" /\ Len(fetches) = run.args.max_pages =>
        /\ ppc' = "done"
        /\ fetches' = fetches
        /\ Raised(page_outcome') /\ page_outcome'.raise = "ValueError"
        /\ page_outcome'.text \in EXCEEDED_TEXTS

\* C23: the fetches of a run never exceed max_pages, the cap being checked
\* before each fetch: after max_pages fetches the next turn of the loop fails
\* without fetching, and a run whose page number max_pages has no cursor
\* succeeds with pages = max_pages.
C23_CapBeforeFetch == []C23_State /\ [][C23_Step]_vars

\* max_pages = 1 and a page with a fresh cursor: one fetch, then the failure
C23_Witness ==
    /\ RunRaised("ValueError")
    /\ page_outcome.text \in EXCEEDED_TEXTS
    /\ run.args.max_pages = 1
    /\ Len(fetches) = 1
    /\ Fetched(1).cursor = Str("a")

----------------------------------------------------------------------------
(* C24 *)

\* the payload has no next cursor: None (or no "cursor" key) or the empty string
AbsentCursor(c) == c = None \/ c = Str("")

\* C24: a fetched page whose payload has no next cursor, None or the empty
\* string, is the last page fetched in its run, and the run has returned.
C24_AbsentCursorStops ==
    RunStarted =>
        \A i \in 1..Len(fetches) :
            GoodPage(Fetched(i)) /\ AbsentCursor(Fetched(i).cursor) =>
                i = Len(fetches) /\ RunReturned

\* a run that returned on a second page whose cursor is the empty string
C24_Witness ==
    /\ RunReturned
    /\ Len(fetches) = 2
    /\ Fetched(2).cursor = Str("")
    /\ run.args.max_pages > 2
    /\ page_outcome.return.pages = Num(2)

----------------------------------------------------------------------------
(* C25 *)

\* of the first k elements of a sequence, those not equal to an earlier one
RECURSIVE C25_FirstSeen(_, _)
C25_FirstSeen(all, k) ==
    IF k = 0 THEN <<>>
    ELSE IF \E j \in 1..(k - 1) : all[j] = all[k] THEN C25_FirstSeen(all, k - 1)
    ELSE Append(C25_FirstSeen(all, k - 1), all[k])

C25_AllFetched == ItemsOfPages(Len(fetches))

\* C25: the series-ticker tool returns the tickers of the fetched pages in
\* the order of their first occurrence, none of them twice, with count = the
\* length of that list; the open-markets tools return every item of every
\* page, one entry each, in page order.
C25_Deduplication ==
    RunReturned =>
        IF MarketsTool THEN
            /\ Len(page_outcome.return.markets.items) = Len(C25_AllFetched)
            /\ \A i \in 1..Len(C25_AllFetched) :
                  page_outcome.return.markets.items[i].ticker = C25_AllFetched[i]
        ELSE
            LET tickers == page_outcome.return.tickers.items
            IN  /\ \A i, j \in 1..Len(tickers) : i # j => tickers[i] # tickers[j]
                /\ tickers = C25_FirstSeen(C25_AllFetched, Len(C25_AllFetched))
                /\ page_outcome.return.count = Num(Len(tickers))

\* a series-ticker run over two pages that repeat a ticker
C25_Witness ==
    /\ RunReturned
    /\ run.tool = "get_series_tickers_for_category"
    /\ Len(fetches) = 2
    /\ Fetched(1).items.items = <<Str("Y"), Str("X")>>
    /\ Fetched(2).items.items = <<Str("X"), Str("X")>>
    /\ page_outcome.return.tickers = List(<<Str("Y"), Str("X")>>)
    /\ page_outcome.return.count = Num(2)

----------------------------------------------------------------------------
(* C26 *)

\* C26: every HTTP call that has ended either returned a JSON object payload,
\* its last attempt having succeeded with a body that parsed as an object, or
\* raised KalshiClientError.
C26_Original ==
    cpc = "done" =>
        \/ RaisedClientError
        \/ /\ ~Raised(outcome)
           /\ outcome.return = [payload |-> "object"]
           /\ last_try.response.kind = "ok"
           /\ last_try.response.body = "object"

\* a call ended by an exception that is not KalshiClientError: the timeout of
\* the socket while the response was awaited, at the first attempt
C26_Witness ==
    /\ cpc = "done"
    /\ urlopens = 1
    /\ sleeps = 0
    /\ last_try.response.kind = "TimeoutError"
    /\ Raised(outcome)
    /\ outcome.raise = "TimeoutError"

----------------------------------------------------------------------------
(* C27 *)

C27_Tool(tool_name, arguments) == [tool |-> tool_name, arguments |-> arguments]

\* the kalshi URIs of the model whose path is one of the routes and whose
\* query values are well formed, with the tool and the arguments each stands for
C27_Routes ==
    ("kalshi:///categories" :> C27_Tool("get_categories", EmptyDict))
    @@ ("kalshi:///portfolio/balance" :> C27_Tool("get_balance", EmptyDict))
    @@ ("kalshi:///portfolio/subaccount_balances"
            :> C27_Tool("get_subaccount_balances", EmptyDict))
    @@ ("kalshi:///tags_by_categories" :> C27_Tool("get_tags_for_series_categories", EmptyDict))
    @@ ("kalshi:///category/Politics/tags"
            :> C27_Tool("get_tags_for_series_category", [category |-> Str("Politics")]))
    @@ ("kalshi:///category/Sports/tags"
            :> C27_Tool("get_tags_for_series_category", [category |-> Str("Sports")]))
    @@ ("kalshi:///category/Pol%69tics/tags"
            :> C27_Tool("get_tags_for_series_category", [category |-> Str("Politics")]))
    @@ ("kalshi:///category/Politics/series_tickers?tags=Fed&limit=50&max_pages=2"
            :> C27_Tool("get_series_tickers_for_category",
                        [category |-> Str("Politics"), tags |-> Str("Fed"),
                         limit |-> Num(50), max_pages |-> Num(2)]))
    @@ ("kalshi:///series?category=Politics&limit= 2 &include_volume=yes"
            :> C27_Tool("get_series_list",
                        [category |-> Str("Politics"), limit |-> Num(2),
                         include_volume |-> Bool(TRUE)]))
    @@ ("kalshi:///portfolio/orders?status=resting&limit=50"
            :> C27_Tool("get_orders", [status |-> Str("resting"), limit |-> Num(50)]))
    @@ ("kalshi:///series/KXFED/open_markets?max_pages=1&limit="
            :> C27_Tool("get_open_markets_for_series",
                        [series_ticker |-> Str("KXFED"), max_pages |-> Num(1)]))
    @@ ("kalshi:///series/KXFED/open_market_titles"
            :> C27_Tool("get_open_market_titles_for_series", [series_ticker |-> Str("KXFED")]))

\* the kalshi URIs of the model whose path is one of the routes and whose
\* query has a value that is not the integer or the boolean it should be
C27_BadQuery ==
    {"kalshi:///category/Politics/series_tickers?limit=abc",
     "kalshi:///series?include_volume=maybe"}

\* a resources/read request that reaches ResourceRegistry.read_resource
C27_Read ==
    /\ SingleRequestFor({"resources/read"})
    /\ WellFormedRead(Get(line.value, "params"))
    /\ resources
    /\ initialized

C27_Uri == line.value.params.uri.s
C27_ToolCalls == SelectSeq(calls, LAMBDA c : c.callee = "ToolRegistry.call_tool")

\* the tool of the route was called once, with the route's arguments, and
\* what it returned is the text of the one contents entry; when it raised,
\* so did the read
C27_Sugar(route) ==
    /\ Len(C27_ToolCalls) = 1
    /\ C27_ToolCalls[1].arg = route.tool
    /\ C27_ToolCalls[1].arguments = route.arguments
    /\ Len(stdout) = 1
    /\ \E o \in {Handler(route.tool, route.arguments, upstream)} :
          IF Raised(o) THEN IsErrorResponse(stdout[1])
          ELSE /\ IsResultResponse(stdout[1])
               /\ stdout[1].result.contents =
                      <<[uri |-> Str(C27_Uri), mimeType |-> Str("application/json"),
                         text |-> DumpsPretty(o.return)]>>

C27_NoTool ==
    /\ C27_ToolCalls = <<>>
    /\ Len(stdout) = 1
    /\ IsErrorResponse(stdout[1])

\* C27 as claimed: every kalshi URI whose path is one of the routes has
\* call_tool invoked exactly once; another scheme, an unknown path and a
\* malformed parameterized path raise without a tool.
C27_Original ==
    C27_Read =>
        IF C27_Uri \in DOMAIN C27_Routes THEN C27_Sugar(C27_Routes[C27_Uri])
        ELSE IF C27_Uri \in C27_BadQuery THEN Len(C27_ToolCalls) = 1
        ELSE C27_NoTool

\* C27: a read of a kalshi URI whose path is one of the routes and whose
\* query values are well formed invokes ToolRegistry.call_tool exactly once,
\* with the arguments taken from the URI, and returns the tool's result as
\* the single contents entry (or raises what the tool raised); every other
\* URI, one with a query value that is not the integer or boolean expected
\* included, raises without invoking a tool.
C27_ResourcesAreSugar ==
    C27_Read =>
        IF C27_Uri \in DOMAIN C27_Routes THEN C27_Sugar(C27_Routes[C27_Uri])
        ELSE C27_NoTool

\* a read of the series-tickers resource with a query, answered with the
\* tool's result
C27_Witness ==
    /\ C27_Read
    /\ C27_Uri = "kalshi:///category/Politics/series_tickers?tags=Fed&limit=50&max_pages=2"
    /\ upstream = "ok"
    /\ Len(C27_ToolCalls) = 1
    /\ IsResultResponse(stdout[1])

----------------------------------------------------------------------------
(* C28 *)

\* C28: a tools/call request whose params is not an object, whose name is
\* missing, not a string or empty, or whose arguments is present and neither
\* null nor an object gets the error -32602 and invokes nothing, whether or
\* not the session is initialized.
C28_EnvelopeBeforeInitialized ==
    (SingleRequestFor({"tools/call"}) /\ ~WellFormedToolCall(Get(line.value, "params"))) =>
        /\ Len(stdout) = 1
        /\ IsErrorResponse(stdout[1])
        /\ ErrorCode(stdout[1]) = -32602
        /\ stdout[1].id = line.value.id
        /\ calls = <<>>

\* a tools/call with a tool name and arguments that are a list, on a session
\* that is not initialized
C28_Witness ==
    /\ SingleRequestFor({"tools/call"})
    /\ ~initialized
    /\ IsDict(Get(line.value, "params"))
    /\ Get(line.value.params, "name") = Str("get_categories")
    /\ Get(line.value.params, "arguments") = List(<<>>)
    /\ ErrorCode(stdout[1]) = -32602

----------------------------------------------------------------------------
(* C29 *)

\* the line being handled is a single request for a method the server does
\* not know as a request
C29_UnknownMethod ==
    /\ line.raw = "json"
    /\ IsRequest(line.value)
    /\ line.value.method.s \notin
           {"initialize", "ping", "tools/list", "tools/call", "resources/list",
            "resources/read", "resources/templates/list"}

\* its answer is the error -32601 and no collaborator was invoked
C29_State ==
    (LineDone /\ C29_UnknownMethod) =>
        /\ Len(stdout) = 1
        /\ IsErrorResponse(stdout[1])
        /\ ErrorCode(stdout[1]) = -32601
        /\ stdout[1].id = line.value.id
        /\ calls = <<>>

\* handling it changes nothing of the session
C29_Step ==
    (pc = "handle" /\ C29_UnknownMethod) =>
        /\ initialized' = initialized
        /\ resources' = resources
        /\ handshake' = handshake
        /\ pc' = "next"

\* C29: a request for any method other than initialize, ping, tools/list,
\* tools/call, resources/list, resources/read and resources/templates/list is
\* answered with the error -32601 in every session state, without invoking a
\* collaborator and without changing the session; so a request (with an id)
\* for notifications/initialized gets -32601 and does not initialize.
C29_MethodNotFound == []C29_State /\ [][C29_Step]_vars

\* a request for notifications/initialized answered on a session that stays
\* uninitialized
C29_Witness ==
    /\ SingleRequestFor({"notifications/initialized"})
    /\ ~initialized
    /\ handshake # "notified"
    /\ Len(stdout) = 1
    /\ ErrorCode(stdout[1]) = -32601

----------------------------------------------------------------------------
(* C30 *)

\* the protocolVersion the client sent with its initialize request
C30_Given == Get(Get(line.value, "params"), "protocolVersion")

\* C30: the result of a successful initialize carries the client's
\* protocolVersion when that is a non-empty string and "2025-06-18" when it
\* is absent or malformed, always the tools capability, the resources
\* capability exactly when a resource registry was wired in, and the same
\* serverInfo every time.
C30_InitializeResult ==
    (SingleRequestFor({"initialize"}) /\ IsResultResponse(stdout[1])) =>
        LET result == stdout[1].result
        IN  /\ DOMAIN result = {"protocolVersion", "capabilities", "serverInfo"}
            /\ result.protocolVersion =
                   IF IsStr(C30_Given) /\ C30_Given.s # "" THEN C30_Given
                   ELSE Str("2025-06-18")
            /\ "tools" \in DOMAIN result.capabilities
            /\ result.capabilities.tools = [listChanged |-> Bool(FALSE)]
            /\ ("resources" \in DOMAIN result.capabilities) <=> resources
            /\ resources =>
                   result.capabilities.resources =
                       [subscribe |-> Bool(FALSE), listChanged |-> Bool(FALSE)]
            /\ result.serverInfo =
                   [name |-> Str("kalshi-mcp-server"), version |-> Str("0.1.0")]

\* an initialize request that names a protocol version, answered with it
C30_Witness ==
    /\ SingleRequestFor({"initialize"})
    /\ IsResultResponse(stdout[1])
    /\ C30_Given = Str("2024-11-05")
    /\ stdout[1].result.protocolVersion = Str("2024-11-05")
    /\ resources

----------------------------------------------------------------------------
(* C31 *)

\* the line is one jsonrpc "2.0" object that has no string method
C31_NoMethod ==
    /\ line.raw = "json"
    /\ IsDict(line.value)
    /\ Get(line.value, "jsonrpc") = JSONRPC_VERSION
    /\ ~IsStr(Get(line.value, "method"))

\* it has an id key together with a result or an error key
C31_IsResponse ==
    /\ "id" \in DOMAIN line.value
    /\ "result" \in DOMAIN line.value \/ "error" \in DOMAIN line.value

\* the line is one jsonrpc "2.0" object with a string method and the id null
C31_NullId ==
    /\ line.raw = "json"
    /\ IsDict(line.value)
    /\ Get(line.value, "jsonrpc") = JSONRPC_VERSION
    /\ IsStr(Get(line.value, "method"))
    /\ "id" \in DOMAIN line.value
    /\ line.value.id = None

C31_InvalidRequest ==
    /\ Len(stdout) = 1
    /\ IsErrorResponse(stdout[1])
    /\ ErrorCode(stdout[1]) = -32600
    /\ stdout[1].id = Get(line.value, "id")

C31_State ==
    /\ (LineDone /\ C31_NoMethod) =>
          /\ calls = <<>>
          /\ IF C31_IsResponse THEN stdout = <<>> ELSE C31_InvalidRequest
    /\ (LineDone /\ C31_NullId) => (calls = <<>> /\ C31_InvalidRequest)

C31_Step ==
    (pc = "handle" /\ (C31_NoMethod \/ C31_NullId)) =>
        /\ initialized' = initialized
        /\ resources' = resources
        /\ handshake' = handshake
        /\ pc' = "next"

\* C31: a jsonrpc "2.0" object without a string method is dropped, with no
\* response and no change of the session, when it has an id key and a result
\* or error key, and is answered with the error -32600 otherwise; an object
\* with a string method and the id null is answered with -32600 and its method
\* is not dispatched.
C31_ResponsesDroppedOthersInvalid == []C31_State /\ [][C31_Step]_vars

\* a response of the client has been read and nothing was written for it
C31_Witness ==
    /\ LineDone
    /\ C31_NoMethod
    /\ C31_IsResponse
    /\ "result" \in DOMAIN line.value
    /\ stdout = <<>>
    /\ pc = "next"

----------------------------------------------------------------------------
(* C32 *)

\* the names of the descriptors a tools/list response carries, in order
C32_Names ==
    [i \in 1..Len(stdout[1].result.tools.items) |-> stdout[1].result.tools.items[i].name.s]

\* C32 as claimed: tools/list returns the descriptors of these thirteen tools,
\* in this order, on every call.
C32_Original ==
    SingleRequestFor({"tools/list"}) =>
        /\ Len(stdout) = 1
        /\ IsResultResponse(stdout[1])
        /\ C32_Names =
               <<"get_tags_for_series_categories", "get_balance", "get_subaccount_balances",
                 "get_categories", "get_tags_for_series_category", "get_series_list",
                 "get_markets", "get_open_markets_for_series",
                 "get_open_market_titles_for_series", "get_series_tickers_for_category",
                 "create_subaccount", "get_orders", "create_order">>

\* a tools/list request answered with six descriptors, get_balance not among them
C32_Witness ==
    /\ SingleRequestFor({"tools/list"})
    /\ IsResultResponse(stdout[1])
    /\ Len(C32_Names) = 6
    /\ \A i \in 1..6 : C32_Names[i] # "get_balance"

----------------------------------------------------------------------------
(* C33 *)

\* a handler of a paging tool has been called with arguments that are an object
C33_Called == ppc \in {"loop", "done"} /\ run.arguments # None

\* the value given for key is absent or null
C33_Absent(key) == Get(run.arguments, key) = None

\* the value given for key is an integer, no boolean, within lowest..highest
C33_Valid(key, lowest, highest) ==
    /\ ~IsDict(run.arguments[key])
    /\ run.arguments[key].json = "number"
    /\ run.arguments[key].n \in lowest..highest

\* key was parsed as the claim says: the default for an absent value, the
\* value itself when it is valid, and no pagination run otherwise
C33_Parsed(key, lowest, highest) ==
    IF C33_Absent(key) THEN run.args # None => run.args[key] = 1000
    ELSE IF C33_Valid(key, lowest, highest) THEN
        run.args # None => run.args[key] = run.arguments[key].n
    ELSE /\ run.args = None
         /\ ppc = "done"
         /\ Raised(page_outcome)
         /\ page_outcome.raise = "ValueError"
         /\ fetches = <<>>

\* C33: the paging tools never start a pagination run with a page size
\* outside 1..1000 or a page cap outside 1..10000: a limit or max_pages that
\* is a boolean, not an integer or out of range is rejected with ValueError
\* before any fetch, and an absent or null limit or max_pages stands for 1000.
C33_PageSizeAndCapInRange ==
    C33_Called =>
        /\ C33_Parsed("limit", 1, 1000)
        /\ C33_Parsed("max_pages", 1, 10000)
        /\ run.args # None =>
               /\ run.args.limit \in 1..1000
               /\ run.args.max_pages \in 1..10000
        /\ \A i \in 1..Len(fetches) : fetches[i].limit \in 1..1000

\* a run with a null limit and no max_pages fetches with the defaults
C33_Witness ==
    /\ C33_Called
    /\ "limit" \in DOMAIN run.arguments
    /\ run.arguments.limit = None
    /\ "max_pages" \notin DOMAIN run.arguments
    /\ run.args # None
    /\ run.args.limit = 1000
    /\ run.args.max_pages = 1000
    /\ Len(fetches) = 2
    /\ fetches[2].limit = 1000

----------------------------------------------------------------------------
(* C34 *)

\* the message is one the server answers: anything but a notification and a
\* response of the client
C34_Answered(m) ==
    \/ ~IsDict(m)
    \/ Get(m, "jsonrpc") # JSONRPC_VERSION
    \/ IsStr(Get(m, "method")) /\ "id" \in DOMAIN m
    \/ /\ ~IsStr(Get(m, "method"))
       /\ ~("id" \in DOMAIN m /\ ("result" \in DOMAIN m \/ "error" \in DOMAIN m))

C34_IdOf(m) == IF IsDict(m) THEN Get(m, "id") ELSE None

\* the ids of the answered messages among items, in the order of items
C34_IdsInOrder(items) ==
    LET answered == SelectSeq(items, C34_Answered)
    IN  [i \in 1..Len(answered) |-> C34_IdOf(answered[i])]

\* the ids of the responses written (an empty batch has no element to answer
\* and is rejected as a whole)
C34_IdsWritten(written) ==
    IF written = <<>> THEN <<>>
    ELSE IF IsList(written[1]) THEN [i \in 1..Len(written[1].items) |-> written[1].items[i].id]
    ELSE <<written[1].id>>

C34_InitializeThenList ==
    List(<<Notification("notifications/initialized"), Request(Str("a"), "resources/list")>>)

\* nothing of an earlier line is left when a line comes to be handled
C34_State == pc = "handle" => (stdout = <<>> /\ calls = <<>>)

C34_Step ==
    /\ pc = "read" => (initialized' = initialized /\ stdout' = stdout /\ calls' = calls)
    /\ pc = "handle" =>
          /\ line' = line
          /\ pc' = "next"
          /\ (line.raw = "json" /\ MessagesOf(line) # <<>>) =>
                C34_IdsWritten(stdout') = C34_IdsInOrder(MessagesOf(line))
    /\ (pc = "handle" /\ line.raw = "json" /\ line.value = C34_InitializeThenList
        /\ ~initialized /\ resources) =>
          /\ initialized'
          /\ stdout' =
                 <<List(<<_result_response(Str("a"),
                                           [resources |-> ResourceRegistry_list_resources])>>)>>
          /\ Len(calls') = 1
          /\ calls'[1].callee = "ResourceRegistry.list_resources"
          /\ calls'[1].initialized

\* C34: messages are handled one after another in input order and the
\* elements of a batch in element order, each to its end before the next
\* begins: the responses are written in the order of their requests, and what
\* one element of a batch changes the later elements see, so that the batch
\* [notifications/initialized, resources/list] on an uninitialized session
\* with resources gets the resources listed.
C34_OneAfterAnother == []C34_State /\ [][C34_Step]_vars

\* the batch [notifications/initialized, resources/list] answered on a session
\* that was not initialized before it
C34_Witness ==
    /\ LineDone
    /\ line.raw = "json"
    /\ line.value = C34_InitializeThenList
    /\ resources
    /\ initialized
    /\ handshake = "notified"
    /\ Len(stdout) = 1
    /\ IsList(stdout[1])
    /\ IsResultResponse(stdout[1].items[1])
    /\ Len(calls) = 1
    /\ calls[1].initialized

----------------------------------------------------------------------------
(* C35 *)

\* what a call says when its request could not be signed
C35_SIGNING_TEXTS ==
    {AUTH_REQUIRED_TEXT, "Unable to read API key file", "Unable to load private key",
     "Unable to sign Kalshi API request."}

C35_SigningFailed == Raised(outcome) /\ outcome.text \in C35_SIGNING_TEXTS

C35_AuthHeaders == {"KALSHI_ACCESS_KEY", "KALSHI_ACCESS_SIGNATURE", "KALSHI_ACCESS_TIMESTAMP"}

C35_State ==
    (cpc \in {"attempt", "done"} /\ req.authenticated) =>
        /\ signings = 1
        /\ Len(sent) = urlopens
        /\ \A i \in 1..Len(sent) :
              /\ C35_AuthHeaders \subseteq DOMAIN sent[i]
              /\ \A h \in C35_AuthHeaders : sent[i][h] = sent[1][h]
              /\ sent[i] = req.headers
        /\ C35_SigningFailed =>
              /\ cpc = "done"
              /\ urlopens = 0
              /\ sent = <<>>
              /\ attempts = 0
              /\ sleeps = 0
        /\ (cpc = "attempt" \/ urlopens > 0) => C35_AuthHeaders \subseteq DOMAIN req.headers

\* the request is signed where the call starts and nowhere else: an attempt
\* neither signs nor reads the key nor touches the request
C35_Step ==
    /\ signings' > signings => (cpc = "idle" /\ urlopens' = 0 /\ sent' = <<>>)
    /\ cpc = "attempt" =>
          /\ signings' = signings
          /\ key_reads' = key_reads
          /\ cached_private_key' = cached_private_key
          /\ req' = req

\* C35: for one authenticated call the request is signed exactly once, before
\* the first network attempt, and every attempt of the call sends the same
\* key id, signature and timestamp; when signing fails no attempt is made and
\* nothing is retried.
C35_SignedOncePerCall == []C35_State /\ [][C35_Step]_vars

\* an authenticated call at its fourth attempt, signed once
C35_Witness ==
    /\ cpc = "done"
    /\ req.authenticated
    /\ urlopens = 4
    /\ Len(sent) = 4
    /\ signings = 1
    /\ sent[4] = sent[1]
    /\ "KALSHI_ACCESS_SIGNATURE" \in DOMAIN sent[1]

----------------------------------------------------------------------------
(* C36 *)

C36_ResourceRegistryCalls ==
    SelectSeq(calls, LAMBDA c : c.callee \in {"ResourceRegistry.list_resources",
                                              "ResourceRegistry.read_resource",
                                              "ResourceRegistry.list_resource_templates"})

\* C36: for each resources/list, resources/read and resources/templates/list
\* request the capability is checked before the session: without a resource
\* registry the answer is the error -32601 in every session state, and with
\* one on a session that is not initialized it is an error that names the
\* missing initialization; the resource registry is invoked in neither case.
C36_CapabilityBeforeInitialized ==
    SingleRequestFor({"resources/list", "resources/read", "resources/templates/list"}) =>
        /\ ~resources =>
              /\ Len(stdout) = 1
              /\ IsErrorResponse(stdout[1])
              /\ ErrorCode(stdout[1]) = -32601
              /\ stdout[1].id = line.value.id
              /\ calls = <<>>
        /\ (resources /\ ~initialized) =>
              /\ Len(stdout) = 1
              /\ IsErrorResponse(stdout[1])
              /\ stdout[1].error.message =
                     Str("Server is not initialized. "
                         \o "Send initialize and notifications/initialized first.")
              /\ stdout[1].id = line.value.id
              /\ C36_ResourceRegistryCalls = <<>>
              /\ calls = <<>>

\* a well-formed resources/read on a server without a resource registry,
\* before the session is initialized
C36_Witness ==
    /\ SingleRequestFor({"resources/read"})
    /\ WellFormedRead(Get(line.value, "params"))
    /\ ~resources
    /\ ~initialized
    /\ ErrorCode(stdout[1]) = -32601

----------------------------------------------------------------------------
(* C37 *)

\* the line is a single well-formed request for initialize (its params an
\* object), ping or tools/list
C37_Ungated ==
    /\ line.raw = "json"
    /\ IsRequest(line.value)
    /\ \/ line.value.method.s \in {"ping", "tools/list"}
       \/ line.value.method.s = "initialize" /\ IsDict(Get(line.value, "params"))

C37_State ==
    (LineDone /\ C37_Ungated) =>
        /\ Len(stdout) = 1
        /\ IsResultResponse(stdout[1])
        /\ stdout[1].id = line.value.id
        /\ initialized <=> (handshake = "notified")

C37_Step ==
    (pc = "handle" /\ C37_Ungated) =>
        /\ initialized' = initialized
        /\ pc' = "next"

\* C37: initialize, ping and tools/list do not wait for the handshake: in
\* every session state, before and after notifications/initialized and as
\* often as they are sent, a well-formed request for one of them gets a result
\* and leaves the initialized flag as it was.
C37_NotGatedByHandshake == []C37_State /\ [][C37_Step]_vars

\* tools/list answered before the client has sent anything else
C37_Witness ==
    /\ LineDone
    /\ C37_Ungated
    /\ line.value.method.s = "tools/list"
    /\ handshake = "none"
    /\ ~initialized
    /\ IsResultResponse(stdout[1])

----------------------------------------------------------------------------
(* C38 *)

\* the line is one object whose jsonrpc is missing or is not "2.0"
C38_WrongVersion ==
    /\ line.raw = "json"
    /\ IsDict(line.value)
    /\ Get(line.value, "jsonrpc") # Str("2.0")

C38_State ==
    (LineDone /\ C38_WrongVersion) =>
        /\ Len(stdout) = 1
        /\ IsErrorResponse(stdout[1])
        /\ ErrorCode(stdout[1]) = -32600
        /\ stdout[1].id = (IF "id" \in DOMAIN line.value THEN line.value.id ELSE None)
        /\ calls = <<>>

C38_Step ==
    (pc = "handle" /\ C38_WrongVersion) =>
        /\ initialized' = initialized
        /\ handshake' = handshake
        /\ pc' = "next"

\* C38: the jsonrpc version is checked before a message is taken as a request
\* or a notification: an object whose jsonrpc is not "2.0" is answered with
\* the error -32600 under its id, null when it has none, also when it has a
\* method and no id; its method is not dispatched, so a
\* notifications/initialized with a wrong or missing jsonrpc does not
\* initialize the session.
C38_VersionBeforeClassification == []C38_State /\ [][C38_Step]_vars

\* a notifications/initialized without jsonrpc, rejected on a session that
\* stays uninitialized
C38_Witness ==
    /\ LineDone
    /\ C38_WrongVersion
    /\ "jsonrpc" \notin DOMAIN line.value
    /\ Get(line.value, "method") = Str("notifications/initialized")
    /\ "id" \notin DOMAIN line.value
    /\ ~initialized
    /\ Len(stdout) = 1
    /\ stdout[1].id = None
    /\ ErrorCode(stdout[1]) = -32600

----------------------------------------------------------------------------
(* C39 *)

\* the run failed in a fetch: the client raised for the page it got
C39_FetchError ==
    /\ RunRaised("KalshiClientError")
    /\ fetches # <<>>
    /\ ~GoodPage(Fetched(Len(fetches)))

\* the ways a run ends
C39_Ended ==
    \/ RunReturned
    \/ RunRaised("ValueError") /\ page_outcome.text \in CURSOR_REPEATED_TEXTS
    \/ RunRaised("ValueError") /\ page_outcome.text \in EXCEEDED_TEXTS
    \/ C39_FetchError

C39_State ==
    RunStarted =>
        /\ Len(fetches) <= run.args.max_pages
        /\ locals.pages <= run.args.max_pages
        /\ ppc = "done" => C39_Ended
        /\ ppc = "loop" => page_outcome = Pending

\* every turn that stays in the loop has fetched one page more, of at most
\* max_pages
C39_Step ==
    (ppc = "loop" /\ ppc' = "loop") =>
        /\ Len(fetches') = Len(fetches) + 1
        /\ locals'.pages = locals.pages + 1
        /\ locals'.pages <= run.args.max_pages
        /\ locals'.cursor # None

\* C39: every pagination run terminates whatever the upstream answers,
\* provided each fetch returns: after at most max_pages fetches it has ended,
\* by success, by the cursor-repeated error, by the cap error or by the error
\* of a fetch; an upstream that names a next page every time does not keep it
\* running.
C39_RunsTerminate ==
    /\ []C39_State
    /\ [][C39_Step]_vars
    /\ (ppc = "loop") ~> (ppc = "done")

\* an upstream that named a next page every time: the run has ended by the cap
C39_Witness ==
    /\ RunRaised("ValueError")
    /\ page_outcome.text \in EXCEEDED_TEXTS
    /\ run.args.max_pages = 2
    /\ Len(fetches) = 2
    /\ ProperCursor(Fetched(1).cursor)
    /\ ProperCursor(Fetched(2).cursor)

====
